---- MODULE Spec2Model ----
(***************************************************************************)
(* Model of the authentication core of the RtA Studio mobile client:      *)
(*   - the Session Store        (src/lib/auth-store.ts)                    *)
(*   - the redirect handler     (src/lib/auth-redirect.ts,                 *)
(*                               handleDeepLink in src/app/_layout.tsx)    *)
(* The auth provider (supabase.auth) is the environment: it keeps the      *)
(* current session, answers getSession / signOut / exchange calls and      *)
(* feeds events to the listener registered with onAuthStateChange.         *)
(***************************************************************************)
EXTENDS Integers, Sequences, FiniteSets, Bags, TLC

\* ---------------------------------------------------------------- bounds
NumHooks == 2            \* React components using useAuthStatus
NumSignOuts == 1         \* invocations of signOut()
MaxProviderEvents == 2   \* spontaneous provider events (sign-in elsewhere, refresh, ...)
MaxTicks == 2            \* clock ticks observed
MaxInflight == 1         \* redirect exchanges in flight at once
MaxAttempts == 4         \* getSession calls issued by sendAuthToWeb
MaxLoadEnds == 2         \* load-end events of the WebView
MaxRequests == 1         \* session requests of each alias posted by the document
MaxNavChanges == 1       \* navigation state changes of the WebView
NumClears == 2           \* clearAllCache() invocations
MaxWrites == 2           \* setCachedData() calls

\* ---------------------------------------------------------------- program constants
DedupWindowMs == 5000    \* shouldSkip: now - lastHandledAt < 5000
TickMs == DedupWindowMs \div 2        \* granularity of the modelled clock
StartMs == 2 * DedupWindowMs          \* Date.now() when the app starts
MaxNow == StartMs + MaxTicks * TickMs

\* ---------------------------------------------------------------- values
NoUser == "null"                  \* JS null (no user / no session)
Users == {"u1", "u2"}             \* subject ids
MaybeUser == Users \cup {NoUser}
Hooks == 1..NumHooks
SignOuts == 1..NumSignOuts
NoEvent == "null"
AuthEvents == {"INITIAL_SESSION", "SIGNED_IN", "SIGNED_OUT", "TOKEN_REFRESHED"}
Never == 0 - 1                    \* no time yet

\* The URLs the operating system hands to the app.
Param(k, v) == <<k, "=">> \o v
Query(head, params) == head \o <<"?">> \o params
And(p, q) == p \o <<"&">> \o q
AuthUrl == <<"rtastudio-app://", "auth">>
RedirectUrls ==
  { AuthUrl,
    Query(AuthUrl, Param("code", <<"X">>)),
    Query(AuthUrl, Param("handoff", <<"X">>)),
    Query(AuthUrl, Param("handoff", <<"Y">>)),
    Query(AuthUrl, And(Param("error", <<"access_denied">>), Param("code", <<"X">>))),
    Query(AuthUrl, And(Param("handoff", <<"X">>), Param("error_description", <<"Denied">>))),
    Query(AuthUrl, And(Param("error", <<"access_denied">>),
                       Param("error_description", <<"Denied">>))),
    Query(AuthUrl, And(Param("error", <<>>), Param("code", <<"X">>))),
    Query(AuthUrl, And(Param("code", <<"X">>), Param("handoff", <<"Y">>))),
    Query(AuthUrl, And(Param("handoff", <<"Y">>), Param("code", <<"X">>))),
    Query(AuthUrl, And(Param("code", <<>>), Param("handoff", <<"Y">>))),
    Query(AuthUrl, And(Param("access_token", <<"T">>), Param("refresh_token", <<"R">>))),
    Query(<<"rtastudio-app://", "auth", "orize">>, Param("code", <<"X">>)),
    Query(<<"rtastudio-app://", "project">>,
          And(Param("from", AuthUrl), Param("handoff", <<"X">>))),
    Query(<<"rtastudio-app://", "project">>, Param("code", <<"X">>)) }

VARIABLES
  \* --- module state of auth-store.ts
  cachedUser,        \* let cachedUser
  listeners,         \* let listeners      (the hooks whose setUser is subscribed)
  readyListeners,    \* let readyListeners (the hooks whose setReady is subscribed)
  authReady,         \* let authReady
  lastAuthEvent,     \* let lastAuthEvent
  lastAuthUserId,    \* let lastAuthUserId
  initPromise,       \* let initPromise: "null" | "pending" | "resolved" | "rejected"
  \* --- React state of the components using useAuthStatus
  hookPc,            \* "unmounted" | "mounted" | "gone"
  hookUser,          \* useState user
  hookReady,         \* useState ready
  \* --- signOut() invocations
  soPc,              \* "idle" | "awaitInit" | "awaitRemote" | "resolved" | "rejected"
  \* --- the provider (environment)
  provSession,       \* user of the provider's current (persisted) session
  provListeners,     \* number of callbacks registered with onAuthStateChange
  provEvents,        \* events emitted and not yet delivered to the callback
  provEmitted,       \* spontaneous events emitted so far
  \* --- observation of calls made (history)
  getSessionCalls,   \* supabase.auth.getSession() calls issued by the store
  ensureCalls,       \* ensureInitialized() calls
  remoteSignOutCalls,\* supabase.auth.signOut() calls issued
  notifyCalls,       \* notify() calls
  readyNotifyCalls,  \* notifyReady() calls
  lastPub,           \* origin and identity of the last notify()
  \* --- module state of auth-redirect.ts
  lastHandledKey,    \* let lastHandledKey
  lastHandledAt,     \* let lastHandledAt
  \* --- redirect handling in progress and its environment
  inflight,          \* remote calls awaited by handleAuthRedirectUrl invocations
  alert,             \* message of the last "Authentication Error" alert
  now,               \* Date.now()
  baseUrlSet,        \* EXPO_PUBLIC_WEB_AUTH_URL || EXPO_PUBLIC_WEB_EDITOR_URL is set
  \* --- observation (history)
  trackedAt,         \* when the handoff code X was last handled and not skipped
  trackedFetch,      \* POSTs of the handoff code X in flight; response of the last settled one
  lastRedirect,      \* the last URL handled and what the handler did with it
  \* --- the screen hosting the WebView (ProjectCanvasScreen)
  screen,            \* which of the two components is mounted
  bridgeUser,        \* const user = useAuthUser()
  urlArgs,           \* the arguments given to buildEditorURL
  webviewUri,        \* source.uri of the WebView (editorURLWithToken)
  sessionSent,       \* useState sessionSent
  canSendAuth,       \* useState canSendAuth
  authQueued,        \* useState authQueued
  authRetryCount,    \* useState authRetryCount
  error,             \* useState error
  loading,           \* useState loading
  sendCalls,         \* sendAuthToWeb invocations awaiting getSession (bag of captures)
  timers,            \* pending setTimeout callbacks (bag)
  \* --- observation (history)
  sessionFetches,    \* supabase.auth.getSession() calls issued by sendAuthToWeb
  injections,        \* injectJavaScript calls carrying the session
  loadEnds,          \* load-end events handled
  requested,         \* session requests handled, by alias
  acked,             \* the 'supabase-session-imported' message was handled
  \* --- the screen's surroundings
  mounted,           \* the screen is mounted (webViewRef.current is the WebView)
  devBuild,          \* __DEV__
  navChanges,        \* navigation state changes handled (history)
  lastEvent,         \* the last WebView event or press handled, and what its handler did (history)
  \* --- React state of RootLayoutInner
  isReady,           \* useState isReady
  startupTimedOut,   \* useState startupTimedOut
  watchdog,          \* the startup watchdog's setTimeout is pending
  effectDeps,        \* [isReady, authReady] of the watchdog effect's last run
  \* --- AppLayout of app/(app)/_layout.tsx
  didRedirectRef,    \* didRedirectRef.current
  appEffectDeps,     \* [authReady, user] of the redirect effect's last run
  replaceCalls,      \* router.replace("/") calls (history)
  \* --- AsyncStorage and the cache of lib/api
  storage,           \* value stored under each key ("absent" when the key is not stored)
  clears,            \* the clearAllCache() invocations: position, keys listed, keys to remove
  writing,           \* key of the setCachedData() call awaiting AsyncStorage.setItem
  cacheWrites        \* setCachedData() calls made

storeVars == <<cachedUser, listeners, readyListeners, authReady, lastAuthEvent,
               lastAuthUserId, initPromise>>
hookVars == <<hookPc, hookUser, hookReady>>
provVars == <<provSession, provListeners, provEvents, provEmitted>>
obsVars == <<getSessionCalls, ensureCalls, remoteSignOutCalls, notifyCalls,
             readyNotifyCalls, lastPub>>
redirectVars == <<lastHandledKey, lastHandledAt, inflight, alert, trackedAt, trackedFetch,
                  lastRedirect>>
envVars == <<now, baseUrlSet>>
webVars == <<screen, bridgeUser, urlArgs, webviewUri, sessionSent, canSendAuth, authQueued,
             authRetryCount, error, loading, sendCalls, timers, sessionFetches,
             injections, loadEnds, requested, acked>>
hostVars == <<mounted, devBuild, navChanges, lastEvent>>
appVars == <<didRedirectRef, appEffectDeps, replaceCalls>>
cacheVars == <<storage, clears, writing, cacheWrites>>
layoutVars == <<isReady, startupTimedOut, watchdog, effectDeps, appVars, cacheVars>>
bridgeVars == <<webVars, hostVars, layoutVars>>
rdVars == <<redirectVars, envVars, bridgeVars>>
authVars == <<storeVars, hookVars, soPc, provVars, obsVars, redirectVars, envVars>>
vars == <<authVars, bridgeVars>>

\* ------------------------------------------------------------ Session Store

\* notify(user): every subscribed setUser is called with user.
Notify(user, src) ==
  /\ hookUser' = [h \in Hooks |-> IF h \in listeners THEN user ELSE hookUser[h]]
  /\ notifyCalls' = notifyCalls + 1
  /\ lastPub' = [src |-> src, user |-> user]

\* notifyReady(ready): every subscribed setReady is called.
NotifyReady ==
  /\ hookReady' = [h \in Hooks |-> IF h \in readyListeners THEN TRUE ELSE hookReady[h]]
  /\ readyNotifyCalls' = readyNotifyCalls + 1

\* Variant of MarkReady without the `if (!authReady)` test.
MarkReady_unguarded ==
  /\ authReady' = TRUE
  /\ NotifyReady

\* if (!authReady) { authReady = true; notifyReady(authReady); }
MarkReady ==
  IF ~authReady
    THEN authReady' = TRUE /\ NotifyReady
    ELSE UNCHANGED <<authReady, hookReady, readyNotifyCalls>>

\* Variant of EnsureInitialized without the `if (initPromise) return` test.
EnsureInitialized_noMemo ==
  /\ ensureCalls' = ensureCalls + 1
  /\ initPromise' = "pending"
  /\ getSessionCalls' = getSessionCalls + 1

\* ensureInitialized(), up to its first suspension point: the memoized promise
\* is returned when there is one; otherwise the async body starts and issues
\* supabase.auth.getSession().
EnsureInitialized ==
  /\ ensureCalls' = ensureCalls + 1
  /\ IF initPromise # "null"
       THEN UNCHANGED <<initPromise, getSessionCalls>>
       ELSE /\ initPromise' = "pending"
            /\ getSessionCalls' = getSessionCalls + 1

\* onAuthStateChange(cb): the provider records the callback and emits
\* INITIAL_SESSION with its current session to it.
RegisterListener ==
  /\ provListeners' = provListeners + 1
  /\ provEvents' = Append(provEvents, [event |-> "INITIAL_SESSION", user |-> provSession])

\* The async body of ensureInitialized resumes after `await getSession()`.
\* outcome "ok": the call returned; data.session is the provider's session
\*               (null when there is none or the provider reported an error);
\* outcome "throw": the call rejected.
RestoreSettle ==
  /\ initPromise = "pending"
  /\ \E outcome \in {"ok", "error", "throw"} :
       IF outcome = "throw"
         THEN /\ MarkReady
              /\ initPromise' = "rejected"
              /\ UNCHANGED <<cachedUser, hookUser, notifyCalls, lastPub,
                             provListeners, provEvents>>
         ELSE LET user == IF outcome = "ok" THEN provSession ELSE NoUser IN
              /\ cachedUser' = user
              /\ Notify(user, "restore")
              /\ MarkReady
              /\ RegisterListener
              /\ initPromise' = "resolved"
  /\ UNCHANGED <<listeners, readyListeners, lastAuthEvent, lastAuthUserId, hookPc,
                 soPc, provSession, provEmitted, getSessionCalls, ensureCalls,
                 remoteSignOutCalls>>
  /\ UNCHANGED rdVars

\* if (event === "INITIAL_SESSION")
\*   if (lastAuthEvent === "INITIAL_SESSION" && lastAuthUserId === newUserId) return;
IsDuplicateInitial(event, newUserId) ==
  /\ event = "INITIAL_SESSION"
  /\ lastAuthEvent = "INITIAL_SESSION"
  /\ lastAuthUserId = newUserId

\* The callback given to onAuthStateChange runs for the next emitted event.
OnAuthStateChange ==
  /\ provEvents # <<>>
  /\ LET e == Head(provEvents) IN
       /\ provEvents' = Tail(provEvents)
       /\ IF IsDuplicateInitial(e.event, e.user)
            THEN UNCHANGED <<storeVars, hookVars, notifyCalls, readyNotifyCalls, lastPub>>
            ELSE /\ lastAuthEvent' = e.event
                 /\ lastAuthUserId' = e.user
                 /\ cachedUser' = e.user
                 /\ Notify(e.user, e.event)
                 /\ MarkReady
                 /\ UNCHANGED <<listeners, readyListeners, initPromise, hookPc>>
  /\ UNCHANGED <<soPc, provSession, provListeners, provEmitted, getSessionCalls,
                 ensureCalls, remoteSignOutCalls>>
  /\ UNCHANGED rdVars

\* useAuthStatus(): first render and the two mount effects.
MountHook(h) ==
  /\ hookPc[h] = "unmounted"
  /\ hookPc' = [hookPc EXCEPT ![h] = "mounted"]
  /\ hookUser' = [hookUser EXCEPT ![h] = cachedUser]
  /\ hookReady' = [hookReady EXCEPT ![h] = authReady]
  /\ listeners' = listeners \cup {h}
  /\ readyListeners' = readyListeners \cup {h}
  /\ EnsureInitialized
  /\ UNCHANGED <<cachedUser, authReady, lastAuthEvent, lastAuthUserId, soPc, provVars,
                 remoteSignOutCalls, notifyCalls, readyNotifyCalls, lastPub>>
  /\ UNCHANGED rdVars

\* useAuthStatus(): the effect cleanup on unmount.
UnmountHook(h) ==
  /\ hookPc[h] = "mounted"
  /\ hookPc' = [hookPc EXCEPT ![h] = "gone"]
  /\ listeners' = listeners \ {h}
  /\ readyListeners' = readyListeners \ {h}
  /\ hookUser' = [hookUser EXCEPT ![h] = NoUser]      \* the component's state is discarded
  /\ hookReady' = [hookReady EXCEPT ![h] = FALSE]
  /\ UNCHANGED <<cachedUser, authReady, lastAuthEvent, lastAuthUserId, initPromise,
                 soPc, provVars, obsVars>>
  /\ UNCHANGED rdVars

\* Variant of SignOutStart that leaves the clear to the finally block.
SignOutStart_noClear(s) ==
  /\ soPc[s] = "idle"
  /\ soPc' = [soPc EXCEPT ![s] = "awaitInit"]
  /\ MarkReady
  /\ EnsureInitialized
  /\ UNCHANGED <<cachedUser, hookUser, notifyCalls, lastPub, listeners, readyListeners,
                 lastAuthEvent, lastAuthUserId, hookPc, provVars, remoteSignOutCalls>>
  /\ UNCHANGED rdVars

\* signOut(), up to its first suspension point: the optimistic clear, the
\* notifications, and the call of ensureInitialized().
SignOutStart(s) ==
  /\ soPc[s] = "idle"
  /\ soPc' = [soPc EXCEPT ![s] = "awaitInit"]
  /\ cachedUser' = NoUser
  /\ Notify(NoUser, "signOutOptimistic")
  /\ MarkReady
  /\ EnsureInitialized
  /\ UNCHANGED <<listeners, readyListeners, lastAuthEvent, lastAuthUserId, hookPc,
                 provVars, remoteSignOutCalls>>
  /\ UNCHANGED rdVars

\* Variant of SignOutFinally with an empty finally block.
SignOutFinally_noClear(s, result) ==
  /\ soPc' = [soPc EXCEPT ![s] = result]
  /\ UNCHANGED <<cachedUser, hookUser, notifyCalls, lastPub>>

\* finally { cachedUser = null; notify(cachedUser); } and the settling of
\* signOut()'s promise.
SignOutFinally(s, result) ==
  /\ soPc' = [soPc EXCEPT ![s] = result]
  /\ cachedUser' = NoUser
  /\ Notify(NoUser, "signOutFinally")

\* signOut() resumes after `await ensureInitialized()`: a rejected
\* initialization skips the remote call and runs the finally block.
SignOutAfterInit(s) ==
  /\ soPc[s] = "awaitInit"
  /\ initPromise \in {"resolved", "rejected"}
  /\ IF initPromise = "resolved"
       THEN /\ soPc' = [soPc EXCEPT ![s] = "awaitRemote"]
            /\ remoteSignOutCalls' = remoteSignOutCalls + 1
            /\ UNCHANGED <<cachedUser, hookUser, notifyCalls, lastPub>>
       ELSE /\ SignOutFinally(s, "rejected")
            /\ UNCHANGED remoteSignOutCalls
  /\ UNCHANGED <<listeners, readyListeners, authReady, lastAuthEvent, lastAuthUserId,
                 initPromise, hookPc, hookReady, provVars, getSessionCalls, ensureCalls,
                 readyNotifyCalls>>
  /\ UNCHANGED rdVars

\* signOut() resumes after `await supabase.auth.signOut()`. When the remote
\* call succeeds the provider drops its session and emits SIGNED_OUT.
SignOutRemoteSettle(s) ==
  /\ soPc[s] = "awaitRemote"
  /\ \E ok \in BOOLEAN :
       IF ok
         THEN /\ SignOutFinally(s, "resolved")
              /\ provSession' = NoUser
              /\ provEvents' = IF provListeners > 0
                                 THEN Append(provEvents, [event |-> "SIGNED_OUT", user |-> NoUser])
                                 ELSE provEvents
         ELSE /\ SignOutFinally(s, "rejected")
              /\ UNCHANGED <<provSession, provEvents>>
  /\ UNCHANGED <<listeners, readyListeners, authReady, lastAuthEvent, lastAuthUserId,
                 initPromise, hookPc, hookReady, provListeners, provEmitted,
                 getSessionCalls, ensureCalls, remoteSignOutCalls, readyNotifyCalls>>
  /\ UNCHANGED rdVars

\* ------------------------------------------------------------ the provider

\* The provider changes its session on its own (a sign-in completed by another
\* flow, a token refresh, a remote invalidation) and emits the event.
ProviderEmit ==
  /\ provEmitted < MaxProviderEvents
  /\ provEmitted' = provEmitted + 1
  /\ \E e \in {"SIGNED_IN", "SIGNED_OUT", "TOKEN_REFRESHED"}, u \in Users :
       /\ e = "TOKEN_REFRESHED" => u = provSession
       /\ LET user == IF e = "SIGNED_OUT" THEN NoUser ELSE u IN
            /\ provSession' = user
            /\ provEvents' = IF provListeners > 0
                               THEN Append(provEvents, [event |-> e, user |-> user])
                               ELSE provEvents
  /\ UNCHANGED <<storeVars, hookVars, soPc, bridgeVars, provListeners, obsVars>>
  /\ UNCHANGED rdVars

\* The provider's session ends (the remote sign-out of another flow
\* completes, the session is revoked): SIGNED_OUT is emitted to the listeners.
ProviderSessionEnds ==
  /\ provSession # NoUser
  /\ provSession' = NoUser
  /\ provEvents' = IF provListeners > 0
                     THEN Append(provEvents, [event |-> "SIGNED_OUT", user |-> NoUser])
                     ELSE provEvents
  /\ UNCHANGED <<storeVars, hookVars, soPc, bridgeVars, provListeners, provEmitted, obsVars>>
  /\ UNCHANGED rdVars

\* ------------------------------------------------------------ redirect handler
\* A URL is a sequence of tokens; "?", "&" and "=" are the separator characters.

Callback == AuthUrl                             \* the text "rtastudio-app://auth"
Null == <<"<null>">>                            \* JS null, as URLSearchParams.get returns it

\* String.prototype.includes
Includes(s, sub) ==
  \E i \in 1..(Len(s) - Len(sub) + 1) : SubSeq(s, i, i + Len(sub) - 1) = sub

\* String.prototype.split(sep)
RECURSIVE Split(_, _)
Split(s, sep) ==
  IF \A i \in 1..Len(s) : s[i] # sep
    THEN <<s>>
    ELSE LET i == CHOOSE i \in 1..Len(s) : s[i] = sep /\ \A j \in 1..(i - 1) : s[j] # sep
         IN <<SubSeq(s, 1, i - 1)>> \o Split(SubSeq(s, i + 1, Len(s)), sep)

\* new URLSearchParams(query): the "&"-separated pieces that are not empty,
\* each cut at its first "=" into a name and a value.
URLSearchParams(query) ==
  LET pieces == SelectSeq(Split(query, "&"), LAMBDA p : p # <<>>)
      Entry(p) == LET kv == Split(p, "=") IN
                    [k |-> kv[1],
                     v |-> IF Len(kv) = 1 THEN <<>> ELSE SubSeq(p, Len(kv[1]) + 2, Len(p))]
  IN [i \in 1..Len(pieces) |-> Entry(pieces[i])]

\* URLSearchParams.get(name): the first value of that name, or null.
Get(params, name) ==
  IF \E i \in 1..Len(params) : params[i].k = <<name>>
    THEN params[CHOOSE i \in 1..Len(params) :
                  params[i].k = <<name>> /\ \A j \in 1..(i - 1) : params[j].k # <<name>>].v
    ELSE Null

\* JS truthiness of a string-or-null, and `a || b`
Truthy(v) == v # Null /\ v # <<>>
JsOr(a, b) == IF Truthy(a) THEN a ELSE b

\* const query = url.split("?")[1] || ""; return new URLSearchParams(query);
ParseQueryFromUrl(url) ==
  LET parts == Split(url, "?")
      query == IF Len(parts) >= 2 THEN parts[2] ELSE <<>>
  IN URLSearchParams(query)

\* if (!url.includes("rtastudio-app://auth")) return;
IsRedirectUrl(url) == Includes(url, Callback)

\* Variant of ShouldSkip that never recognises a duplicate.
ShouldSkip_never(key, lastKey, lastAt, t) == FALSE

\* Variant of ShouldSkip that compares the codes without their kind.
ShouldSkip_kindBlind(key, lastKey, lastAt, t) ==
  /\ lastKey # Null
  /\ SubSeq(lastKey, 3, Len(lastKey)) = SubSeq(key, 3, Len(key))
  /\ t - lastAt < DedupWindowMs

\* shouldSkip(key): lastHandledKey === key && now - lastHandledAt < 5000
ShouldSkip(key, lastKey, lastAt, t) == lastKey = key /\ t - lastAt < DedupWindowMs

\* Variant of RedirectIntent that tests code before the error parameters.
RedirectIntent_codeFirst(params) ==
  LET code == Get(params, "code")
      handoff == Get(params, "handoff")
      errorDescription == JsOr(Get(params, "error_description"), Get(params, "error"))
  IN IF Truthy(code) THEN [kind |-> "code", arg |-> code]
     ELSE IF Truthy(errorDescription) THEN [kind |-> "error", arg |-> errorDescription]
     ELSE IF Truthy(handoff) THEN [kind |-> "handoff", arg |-> handoff]
     ELSE [kind |-> "none", arg |-> Null]

\* Variant of RedirectIntent that tests handoff before code.
RedirectIntent_handoffFirst(params) ==
  LET code == Get(params, "code")
      handoff == Get(params, "handoff")
      errorDescription == JsOr(Get(params, "error_description"), Get(params, "error"))
  IN IF Truthy(errorDescription) THEN [kind |-> "error", arg |-> errorDescription]
     ELSE IF Truthy(handoff) THEN [kind |-> "handoff", arg |-> handoff]
     ELSE IF Truthy(code) THEN [kind |-> "code", arg |-> code]
     ELSE [kind |-> "none", arg |-> Null]

\* Variant of RedirectIntent that falls back to an access_token parameter,
\* exchanged like a code.
RedirectIntent_tokenFallback(params) ==
  LET errorDescription == JsOr(Get(params, "error_description"), Get(params, "error"))
      code == Get(params, "code")
      handoff == Get(params, "handoff")
      token == Get(params, "access_token")
  IN IF Truthy(errorDescription) THEN [kind |-> "error", arg |-> errorDescription]
     ELSE IF Truthy(code) THEN [kind |-> "code", arg |-> code]
     ELSE IF Truthy(handoff) THEN [kind |-> "handoff", arg |-> handoff]
     ELSE IF Truthy(token) THEN [kind |-> "code", arg |-> token]
     ELSE [kind |-> "none", arg |-> Null]

\* The branch handleAuthRedirectUrl takes for the parsed parameters:
\* error first, then code, then handoff.
RedirectIntent(params) ==
  LET errorDescription == JsOr(Get(params, "error_description"), Get(params, "error"))
      code == Get(params, "code")
      handoff == Get(params, "handoff")
  IN IF Truthy(errorDescription) THEN [kind |-> "error", arg |-> errorDescription]
     ELSE IF Truthy(code) THEN [kind |-> "code", arg |-> code]
     ELSE IF Truthy(handoff) THEN [kind |-> "handoff", arg |-> handoff]
     ELSE [kind |-> "none", arg |-> Null]

\* `code:${code}` / `handoff:${handoff}`
DedupKey(intent) == <<intent.kind, ":">> \o intent.arg

\* The handler's reading of each URL the model feeds it (computed once).
AcceptedUrls == { u \in RedirectUrls : IsRedirectUrl(u) }
IntentOf == [u \in RedirectUrls |-> RedirectIntent(ParseQueryFromUrl(u))]

\* The handoff code whose handling times the model records.
TrackedKey == <<"handoff", ":", "X">>

InflightCount == inflight.exchangeCodeForSession + inflight.handoffPost + inflight.setSession

\* A remote call is issued and awaited.
Issue(kind) ==
  /\ InflightCount < MaxInflight
  /\ inflight' = [inflight EXCEPT ![kind] = @ + 1]

\* An awaited remote call settles.
Settle(kind) ==
  /\ inflight[kind] > 0
  /\ inflight' = [inflight EXCEPT ![kind] = @ - 1]

\* Alert.alert("Authentication Error", msg) in handleDeepLink's catch
Alert(msg) == alert' = msg

Record(url, did, key) ==
  lastRedirect' = [n |-> 1 - lastRedirect.n, url |-> url, did |-> did,
                   recent |-> /\ key = TrackedKey
                              /\ trackedAt # Never
                              /\ now - trackedAt < DedupWindowMs]

\* handleDeepLink({url}) up to the first suspension point of
\* handleAuthRedirectUrl(url); a throw is caught by handleDeepLink and alerted.
DeepLink(url) ==
  LET intent == IntentOf[url]
      key == DedupKey(intent)
      Remember == /\ lastHandledKey' = key
                  /\ lastHandledAt' = now
                  /\ trackedAt' = IF key = TrackedKey THEN now ELSE trackedAt
  IN
  IF url \notin AcceptedUrls
    THEN /\ Record(url, "ignored", Null)
         /\ UNCHANGED <<lastHandledKey, lastHandledAt, trackedAt, inflight, alert>>
  ELSE IF intent.kind = "error"
    THEN /\ Alert(intent.arg)
         /\ Record(url, "error", Null)
         /\ UNCHANGED <<lastHandledKey, lastHandledAt, trackedAt, inflight>>
  ELSE IF intent.kind = "none"
    THEN /\ Record(url, "none", Null)
         /\ UNCHANGED <<lastHandledKey, lastHandledAt, trackedAt, inflight, alert>>
  ELSE IF ShouldSkip(key, lastHandledKey, lastHandledAt, now)
    THEN /\ Record(url, "skipped", key)
         /\ UNCHANGED <<lastHandledKey, lastHandledAt, trackedAt, inflight, alert>>
  ELSE IF intent.kind = "code"
    THEN /\ Remember
         /\ Issue("exchangeCodeForSession")
         /\ Record(url, "codeExchange", key)
         /\ UNCHANGED alert
  ELSE IF ~baseUrlSet
    THEN /\ Remember
         /\ Alert(<<"Missing EXPO_PUBLIC_WEB_EDITOR_URL">>)
         /\ Record(url, "configError", key)
         /\ UNCHANGED inflight
  ELSE /\ Remember
       /\ Issue("handoffPost")
       /\ Record(url, "handoffPost", key)
       /\ UNCHANGED alert

\* Linking.addEventListener("url", handleDeepLink) / Linking.getInitialURL()
LinkingUrl ==
  /\ \E url \in RedirectUrls : DeepLink(url)
  /\ UNCHANGED <<trackedFetch, envVars, storeVars, hookVars, soPc, bridgeVars, provVars, obsVars>>

\* The same listener fed with the redirect of an authorization-code sign-in.
CodeUrls == { Query(AuthUrl, Param("code", <<"X">>)) }
LinkingCodeUrl ==
  /\ \E url \in CodeUrls : DeepLink(url)
  /\ UNCHANGED <<trackedFetch, envVars, storeVars, hookVars, soPc, bridgeVars, provVars, obsVars>>

\* The same listener fed with handoff redirects only, the POSTs of the handoff
\* code X being counted.
HandoffUrls == { Query(AuthUrl, Param("handoff", <<"X">>)),
                 Query(AuthUrl, Param("handoff", <<"Y">>)) }
LinkingHandoffUrl ==
  /\ \E url \in HandoffUrls : DeepLink(url)
  /\ trackedFetch' = IF lastRedirect'.did = "handoffPost" /\ lastHandledKey' = TrackedKey
                        THEN [posts |-> trackedFetch.posts + 1, res |-> "none"]
                        ELSE trackedFetch
  /\ UNCHANGED <<envVars, storeVars, hookVars, soPc, bridgeVars, provVars, obsVars>>

\* The provider installs a session for user u and emits SIGNED_IN.
ProviderSignIn(u) ==
  /\ provSession' = u
  /\ provEvents' = IF provListeners > 0
                     THEN Append(provEvents, [event |-> "SIGNED_IN", user |-> u])
                     ELSE provEvents

\* handleAuthRedirectUrl resumes after `await exchangeCodeForSession(code)`.
ExchangeCodeSettle ==
  /\ Settle("exchangeCodeForSession")
  /\ \/ \E u \in Users : ProviderSignIn(u) /\ UNCHANGED alert
     \/ Alert(<<"exchange error">>) /\ UNCHANGED <<provSession, provEvents>>
  /\ UNCHANGED <<lastHandledKey, lastHandledAt, trackedAt, trackedFetch, lastRedirect, envVars,
                 storeVars, hookVars, soPc, bridgeVars, provListeners, provEmitted, obsVars>>

\* What `await fetch(exchangeUrl, ...)` can produce: a rejection, a non-2xx
\* response, a 2xx body without both tokens, a 2xx body with both.
FetchResults == {"rejected", "non2xx", "invalid", "valid"}

\* Variant of HandoffResume without the token test on the body.
HandoffResume_noTokenCheck(res) ==
  CASE res = "rejected" -> Alert(<<"Network request failed">>) /\ Settle("handoffPost")
    [] res = "non2xx"   -> Alert(<<"Sign-in exchange failed">>) /\ Settle("handoffPost")
    [] OTHER            -> /\ inflight' = [inflight EXCEPT !.handoffPost = @ - 1,
                                                           !.setSession = @ + 1]
                           /\ UNCHANGED alert

\* The statements after the fetch: `if (!res.ok) throw`, the token test on the
\* body, and the call of supabase.auth.setSession for a valid body. A throw
\* is caught by handleDeepLink and alerted.
HandoffResume(res) ==
  CASE res = "rejected" -> Alert(<<"Network request failed">>) /\ Settle("handoffPost")
    [] res = "non2xx"   -> Alert(<<"Sign-in exchange failed">>) /\ Settle("handoffPost")
    [] res = "invalid"  -> Alert(<<"Invalid exchange response">>) /\ Settle("handoffPost")
    [] res = "valid"    -> /\ inflight' = [inflight EXCEPT !.handoffPost = @ - 1,
                                                           !.setSession = @ + 1]
                           /\ UNCHANGED alert

\* handleAuthRedirectUrl resumes after `await fetch(exchangeUrl, ...)`.
HandoffFetchSettle ==
  /\ inflight.handoffPost > 0
  /\ \E res \in FetchResults : HandoffResume(res)
  /\ UNCHANGED <<lastHandledKey, lastHandledAt, trackedAt, trackedFetch, lastRedirect, envVars,
                 storeVars, hookVars, soPc, bridgeVars, provVars, obsVars>>

\* The same step with the response recorded; tr says whether the settled
\* POST carried the handoff code X.
HandoffFetchSettleObserved ==
  /\ inflight.handoffPost > 0
  /\ \E res \in FetchResults, tr \in BOOLEAN :
       /\ IF tr THEN trackedFetch.posts > 0
                ELSE inflight.handoffPost > trackedFetch.posts
       /\ trackedFetch' = IF tr THEN [posts |-> trackedFetch.posts - 1, res |-> res]
                                 ELSE trackedFetch
       /\ HandoffResume(res)
  /\ UNCHANGED <<lastHandledKey, lastHandledAt, trackedAt, lastRedirect, envVars,
                 storeVars, hookVars, soPc, bridgeVars, provVars, obsVars>>

\* handleAuthRedirectUrl resumes after `await supabase.auth.setSession(...)`.
SetSessionSettle ==
  /\ Settle("setSession")
  /\ \/ \E u \in Users : ProviderSignIn(u) /\ UNCHANGED alert
     \/ Alert(<<"setSession error">>) /\ UNCHANGED <<provSession, provEvents>>
  /\ UNCHANGED <<lastHandledKey, lastHandledAt, trackedAt, trackedFetch, lastRedirect, envVars,
                 storeVars, hookVars, soPc, bridgeVars, provListeners, provEmitted, obsVars>>

\* Date.now() advances.
Tick ==
  /\ now + TickMs <= MaxNow
  /\ now' = now + TickMs
  /\ UNCHANGED <<redirectVars, baseUrlSet, storeVars, hookVars, soPc, bridgeVars, provVars, obsVars>>

\* ------------------------------------------------------------ hosting screen

\* MAX_AUTH_RETRIES
MAX_AUTH_RETRIES == 3
\* setTimeout(..., 1000 * (authRetryCount + 1))
RetryBaseMs == 1000
\* the setTimeout delays of handleLoadEnd
LoadEndSendMs == 150
BridgeRetryMs == {700, 1700, 3200}
ProjectLoadedMs == 150
BridgeLoadedMs == 250

\* The two ProjectCanvasScreen components: the one whose sendAuthToWeb takes
\* { force } (src/app/(app)/feedback.tsx) and the one without it
\* (src/app/project/[projectId].tsx).
ForceScreen == "force"
PlainScreen == "plain"
Screens == {ForceScreen, PlainScreen}

\* Types of the messages the embedded document posts.
RequestAliases == {"auth.request", "request-supabase-session"}
AckType == "supabase-session-imported"
InfoTypes == {"console", "project.saved", "canvas.state", "collaborators.update"}
UnknownType == "unknown.type"
MessageTypes == RequestAliases \cup {AckType, "canvas.ready", "error"} \cup InfoTypes
                  \cup {UnknownType}

\* setError texts
NoError == <<"<null>">>
SessionLostText == <<"Authentication session lost. Please log in again.">>
GaveUpText == <<"Failed to authenticate with editor. Please try again.">>
DefaultErrorText == <<"Unknown error occurred">>

\* Access and refresh tokens of a session; NoTokens for an argument not given.
NoTokens == <<>>
AccessTokens == { <<"T1">> }
RefreshTokens == { <<"R1">> }
Tokens == AccessTokens \cup RefreshTokens

\* process.env.EXPO_PUBLIC_WEB_EDITOR_URL || "https://rtastudio.app", as
\* origin and path, and the project ids.
BaseUrls == { <<"https://rtastudio.app">>, <<"https://staging.rtastudio.app", "/editor">> }
WebEditorBaseUrl == <<"https://rtastudio.app">>
ProjectIds == {"p1", "p2"}

\* URLSearchParams serialisation of a value, and its inverse.
EncodeComponent(tok) == IF tok = "/project/" THEN "%2Fproject%2F" ELSE tok
DecodeComponent(tok) == IF tok = "%2Fproject%2F" THEN "/project/" ELSE tok
Encode(v) == [i \in 1..Len(v) |-> EncodeComponent(v[i])]
Decode(v) == [i \in 1..Len(v) |-> DecodeComponent(v[i])]

\* Variant of buildEditorURL that appends the access token when it is given.
BuildEditorURL_withToken(baseURL, projectId, fromApp, accessToken, refreshToken) ==
  LET bridge == <<Head(baseURL), "/auth/import-session">>
      redirectTo == Param("redirect_to", Encode(<<"/project/", projectId>>))
      params == IF fromApp THEN And(redirectTo, Param("app", <<"1">>)) ELSE redirectTo
  IN IF accessToken = NoTokens THEN Query(bridge, params)
     ELSE Query(bridge, And(params, Param("access_token", accessToken)))

\* buildEditorURL(baseURL, projectId, fromApp, accessToken, refreshToken):
\* new URL("/auth/import-session", baseURL) keeps the origin of baseURL only;
\* searchParams.set encodes the value.
BuildEditorURL(baseURL, projectId, fromApp, accessToken, refreshToken) ==
  LET bridge == <<Head(baseURL), "/auth/import-session">>
      redirectTo == Param("redirect_to", Encode(<<"/project/", projectId>>))
      params == IF fromApp THEN And(redirectTo, Param("app", <<"1">>)) ELSE redirectTo
  IN Query(bridge, params)

\* Argument lists of buildEditorURL; the screen calls it with the base URL and
\* the project id only.
UrlArgs == [baseURL : BaseUrls, projectId : ProjectIds, fromApp : BOOLEAN,
            accessToken : AccessTokens \cup {NoTokens},
            refreshToken : RefreshTokens \cup {NoTokens}]
ScreenArgs == [baseURL |-> WebEditorBaseUrl, projectId |-> "p1", fromApp |-> TRUE,
               accessToken |-> NoTokens, refreshToken |-> NoTokens]

\* The URLs whose load the WebView reports.
ProjectPageUrl(projectId) == <<Head(WebEditorBaseUrl), "/project/", projectId>>
LoginPageUrl == <<Head(WebEditorBaseUrl), "/login">>
LoadedUrls == { webviewUri, ProjectPageUrl("p1"), LoginPageUrl }

\* /\/project\//.test(url) and /\/auth\/import-session/.test(url)
IsProjectPath(url) == Includes(url, <<"/project/">>)
IsBridgePath(url) == Includes(url, <<"/auth/import-session">>)

\* What a closure created by the current render has captured.
Cap == [sessionSent |-> sessionSent, canSendAuth |-> canSendAuth,
        authRetryCount |-> authRetryCount]

\* A pending setTimeout: the closure it will call, its delay, and the
\* load-end event that set it (0 for a retry timer and for a timer set by a
\* navigation state change).
SendTimer(reason, delay, force, cap, batch) ==
  [reason |-> reason, delay |-> delay, force |-> force, cap |-> cap, batch |-> batch]
LoadedTimer(delay, batch) ==
  [reason |-> "loaded", delay |-> delay, force |-> FALSE, batch |-> batch,
   cap |-> [sessionSent |-> FALSE, canSendAuth |-> FALSE, authRetryCount |-> 0]]
Pending(ts, reason) == { t \in BagToSet(ts) : t.reason = reason }

\* Variant of Set that keeps the update of an unmounted component.
Set_afterUnmount(cur, val) == val

\* A state setter of the screen called with val: React drops the update of a
\* component that is no longer mounted.
Set(cur, val) == IF mounted THEN val ELSE cur

\* Variant of sendAuthToWeb that does not read opts.force.
SendAuthToWeb_noForce(cap, force) ==
  IF bridgeUser = NoUser
    THEN UNCHANGED <<authQueued, sendCalls, sessionFetches>>
  ELSE IF cap.sessionSent
    THEN UNCHANGED <<authQueued, sendCalls, sessionFetches>>
  ELSE IF ~cap.canSendAuth
    THEN /\ authQueued' = Set(authQueued, TRUE)
         /\ UNCHANGED <<sendCalls, sessionFetches>>
  ELSE /\ sessionFetches < MaxAttempts
       /\ sendCalls' = sendCalls (+) SetToBag({cap})
       /\ sessionFetches' = sessionFetches + 1
       /\ UNCHANGED authQueued

\* sendAuthToWeb(opts), called through a closure that captured cap, up to its
\* first suspension point.
SendAuthToWeb(cap, force) ==
  IF bridgeUser = NoUser
    THEN UNCHANGED <<authQueued, sendCalls, sessionFetches>>
  ELSE IF cap.sessionSent /\ ~force
    THEN UNCHANGED <<authQueued, sendCalls, sessionFetches>>
  ELSE IF ~cap.canSendAuth /\ ~force
    THEN /\ authQueued' = Set(authQueued, TRUE)
         /\ UNCHANGED <<sendCalls, sessionFetches>>
  ELSE /\ sessionFetches < MaxAttempts
       /\ sendCalls' = sendCalls (+) SetToBag({cap})
       /\ sessionFetches' = sessionFetches + 1
       /\ UNCHANGED authQueued

\* The catch block of sendAuthToWeb: the counter is incremented, and the
\* value the closure captured decides between a retry and the error.
SendAuthFailed(cap) ==
  /\ authRetryCount' = Set(authRetryCount, authRetryCount + 1)
  /\ IF cap.authRetryCount < MAX_AUTH_RETRIES
       THEN /\ timers' = timers (+) SetToBag({SendTimer("retry",
                                     RetryBaseMs * (cap.authRetryCount + 1),
                                     screen = ForceScreen, cap, 0)})
            /\ UNCHANGED error
       ELSE /\ error' = Set(error, GaveUpText)
            /\ UNCHANGED timers

\* sendAuthToWeb resumes after `await supabase.auth.getSession()` with one of
\* the given outcomes.
\* outcome "session": a session is returned and injected as a MessageEvent
\*                    (webViewRef.current?.injectJavaScript: nothing is
\*                    injected once the WebView is gone);
\* outcome "none":    no session is returned;
\* outcome "throw":   getSession or injectJavaScript threw.
SessionSettle(cap, outcome) ==
  /\ sendCalls' = sendCalls (-) SetToBag({cap})
  /\ CASE outcome = "session" ->
            /\ injections' = IF mounted THEN injections + 1 ELSE injections
            /\ sessionSent' = Set(sessionSent, TRUE)
            /\ authQueued' = Set(authQueued, FALSE)
            /\ UNCHANGED <<authRetryCount, timers, error>>
       [] outcome = "none" ->
            /\ error' = Set(error, SessionLostText)
            /\ UNCHANGED <<injections, sessionSent, authQueued, authRetryCount, timers>>
       [] outcome = "throw" ->
            /\ SendAuthFailed(cap)
            /\ UNCHANGED <<injections, sessionSent, authQueued>>
  /\ UNCHANGED <<screen, bridgeUser, urlArgs, webviewUri, canSendAuth, loading, sessionFetches,
                 loadEnds, requested, acked>>
  /\ UNCHANGED <<layoutVars, authVars>>

\* One pending call of sendAuthToWeb resumes with one of the given outcomes.
GetSessionSettleWith(outcomes) ==
  /\ \E cap \in BagToSet(sendCalls), outcome \in outcomes : SessionSettle(cap, outcome)
  /\ UNCHANGED hostVars

SessionOutcomes == {"session", "none", "throw"}
GetSessionSettle == GetSessionSettleWith(SessionOutcomes)

\* The provider's session stays retrievable: getSession returns it.
GetSessionReturns == GetSessionSettleWith({"session"})

\* A parsed message: its type and payload.message (Null when absent).
Response(type, message) == [type |-> type, message |-> message]

\* The switch of handleWebViewMessage on response.type.
Dispatch(response) ==
  CASE response.type \in RequestAliases ->
         /\ requested[response.type] < MaxRequests
         /\ requested' = [requested EXCEPT ![response.type] = @ + 1]
         /\ canSendAuth' = TRUE
         /\ IF screen = ForceScreen
              THEN SendAuthToWeb(Cap, TRUE)
              ELSE IF authQueued /\ ~sessionSent
                     THEN SendAuthToWeb(Cap, FALSE)
                     ELSE UNCHANGED <<authQueued, sendCalls, sessionFetches>>
         /\ UNCHANGED <<sessionSent, error, loading, acked>>
    [] response.type = AckType ->
         /\ acked' = TRUE
         /\ IF screen = ForceScreen
              THEN /\ canSendAuth' = TRUE
                   /\ authQueued' = FALSE
                   /\ sessionSent' = TRUE
              ELSE UNCHANGED <<canSendAuth, authQueued, sessionSent>>
         /\ UNCHANGED <<error, loading, sendCalls, sessionFetches, requested>>
    [] response.type = "canvas.ready" ->
         /\ loading' = FALSE
         /\ error' = NoError
         /\ UNCHANGED <<canSendAuth, authQueued, sessionSent, sendCalls, sessionFetches,
                        requested, acked>>
    [] response.type = "error" ->
         /\ error' = JsOr(response.message, DefaultErrorText)
         /\ loading' = FALSE
         /\ UNCHANGED <<canSendAuth, authQueued, sessionSent, sendCalls, sessionFetches,
                        requested, acked>>
    [] OTHER ->
         UNCHANGED <<canSendAuth, authQueued, sessionSent, error, loading, sendCalls,
                     sessionFetches, requested, acked>>

\* handleWebViewMessage for a parsed message.
HandleWebViewMessage(response) ==
  /\ mounted
  /\ Dispatch(response)
  /\ UNCHANGED <<screen, bridgeUser, urlArgs, webviewUri, authRetryCount, timers, injections, loadEnds>>
  /\ UNCHANGED <<hostVars, layoutVars, authVars>>

\* Variant of handleLoadEnd that, on the bridge path, sets neither the first
\* staggered resend nor the timer clearing the overlay.
LoadEnd_shortBridge(url) ==
  /\ mounted
  /\ loadEnds < MaxLoadEnds
  /\ loadEnds' = loadEnds + 1
  /\ LET batch == loadEnds + 1
         loaded == IF IsProjectPath(url)
                     THEN SetToBag({LoadedTimer(ProjectLoadedMs, batch)}) ELSE EmptyBag
         send == SetToBag({SendTimer("load-end", LoadEndSendMs, screen = ForceScreen, Cap,
                                     batch)})
         bridge == IF screen = ForceScreen /\ IsBridgePath(url)
                     THEN SetToBag({SendTimer("bridge-retry", d, TRUE, Cap, batch) :
                                      d \in BridgeRetryMs \ {700}})
                     ELSE EmptyBag
     IN timers' = timers (+) loaded (+) send (+) bridge
  /\ UNCHANGED <<screen, bridgeUser, urlArgs, webviewUri, sessionSent, canSendAuth, authQueued,
                 authRetryCount, error, loading, sendCalls, sessionFetches, injections,
                 requested, acked>>
  /\ UNCHANGED <<layoutVars, authVars>>

\* The body of handleLoadEnd for the load of url.
LoadEnd(url) ==
  /\ mounted
  /\ loadEnds < MaxLoadEnds
  /\ loadEnds' = loadEnds + 1
  /\ LET batch == loadEnds + 1
         loaded == (IF IsProjectPath(url)
                      THEN SetToBag({LoadedTimer(ProjectLoadedMs, batch)}) ELSE EmptyBag)
                   (+) (IF screen = ForceScreen /\ IsBridgePath(url)
                          THEN SetToBag({LoadedTimer(BridgeLoadedMs, batch)}) ELSE EmptyBag)
         send == SetToBag({SendTimer("load-end", LoadEndSendMs, screen = ForceScreen, Cap,
                                     batch)})
         bridge == IF screen = ForceScreen /\ IsBridgePath(url)
                     THEN SetToBag({SendTimer("bridge-retry", d, TRUE, Cap, batch) :
                                      d \in BridgeRetryMs})
                     ELSE EmptyBag
     IN timers' = timers (+) loaded (+) send (+) bridge
  /\ UNCHANGED <<screen, bridgeUser, urlArgs, webviewUri, sessionSent, canSendAuth, authQueued,
                 authRetryCount, error, loading, sendCalls, sessionFetches, injections,
                 requested, acked>>
  /\ UNCHANGED <<layoutVars, authVars>>

\* handleLoadEnd for the load of url.
HandleLoadEnd(url) ==
  /\ LoadEnd(url)
  /\ UNCHANGED hostVars

\* A pending setTimeout callback runs; timers set by the same load-end event
\* run in the order of their delays. Nothing clears a timer, so it runs
\* whether or not the screen is still mounted.
TimerFire ==
  /\ \E t \in BagToSet(timers) :
       /\ \A u \in BagToSet(timers) : (t.batch > 0 /\ u.batch = t.batch) => u.delay >= t.delay
       /\ timers' = timers (-) SetToBag({t})
       /\ IF t.reason = "loaded"
            THEN /\ loading' = Set(loading, FALSE)
                 /\ UNCHANGED <<authQueued, sendCalls, sessionFetches>>
            ELSE /\ SendAuthToWeb(t.cap, t.force)
                 /\ UNCHANGED loading
  /\ UNCHANGED <<screen, bridgeUser, urlArgs, webviewUri, sessionSent, canSendAuth, authRetryCount,
                 error, injections, loadEnds, requested, acked>>
  /\ UNCHANGED <<hostVars, layoutVars, authVars>>

\* ------------------------------------------------------------ inbound router and surface events

\* JS undefined, as a property that is absent reads.
Undefined == "<undefined>"
TruthyText(v) == v \notin {Undefined, ""}

\* The text of a JSON object with a type, and of one with a type and a
\* payload.message.
Json(type) == <<"{", "type", ":", type, "}">>
JsonWithMessage(type, message) == <<"{", "type", ":", type, ",", "message", ":", message, "}">>

\* Texts parseWebViewResponse drops: not JSON (truncated, plain words), JSON
\* that is not an object (null, a number), objects without a type or with an
\* empty one.
InvalidRaw == { <<"{", "type", ":">>, <<"not json">>, <<"null">>, <<"5">>, <<"{", "}">>,
                <<"{", "message", ":", "boom", "}">>, Json("") }
RawMessages == { Json(t) : t \in MessageTypes }
                 \cup { JsonWithMessage("error", "boom"), JsonWithMessage("error", "") }
                 \cup InvalidRaw

\* The text is a JSON object: { key : value , key : value ... }.
Punctuation == {"{", "}", ":", ","}
IsObjectText(raw) ==
  /\ Len(raw) >= 2
  /\ raw[1] = "{"
  /\ raw[Len(raw)] = "}"
  /\ LET n == Len(raw) - 2
     IN \/ n = 0
        \/ /\ n % 4 = 3
           /\ \A i \in 1..n : CASE i % 4 = 2 -> raw[i + 1] = ":"
                                [] i % 4 = 0 -> raw[i + 1] = ","
                                [] OTHER -> raw[i + 1] \notin Punctuation

\* JSON.parse(jsonString): what kind of value it returns, or that it throws.
JsonParse(raw) ==
  IF raw = <<"null">> THEN "null"
  ELSE IF raw = <<"5">> THEN "number"
  ELSE IF IsObjectText(raw) THEN "object"
  ELSE "throw"

\* message[name] of the parsed object (the last occurrence of the key).
Field(raw, name) ==
  LET at == { i \in 2..(Len(raw) - 1) : i % 4 = 2 /\ raw[i] = name }
  IN IF at = {} THEN Undefined
     ELSE raw[(CHOOSE i \in at : \A j \in at : j <= i) + 2]

\* What parseWebViewResponse returns for null, and what a caller sees of an
\* exception.
NullResponse == [type |-> "<null>", message |-> Null]
Thrown == [type |-> "<thrown>", message |-> Null]

\* The message object a text parses to.
MessageOf(raw) ==
  LET m == Field(raw, "message")
  IN Response(Field(raw, "type"),
              IF m = Undefined THEN Null ELSE IF m = "" THEN <<>> ELSE <<m>>)

\* Variant of parseWebViewResponse without the check of message.type.
ParseWebViewResponse_noTypeCheck(raw) ==
  CASE JsonParse(raw) = "throw" -> NullResponse
    [] JsonParse(raw) = "null" -> NullResponse
    [] JsonParse(raw) = "number" -> Response(Undefined, Null)
    [] OTHER -> MessageOf(raw)

\* parseWebViewResponse(jsonString): JSON.parse throwing, and message.type
\* throwing for null, end in the catch block; a falsy type gives null.
ParseWebViewResponse(raw) ==
  CASE JsonParse(raw) = "throw" -> NullResponse
    [] JsonParse(raw) = "null" -> NullResponse
    [] JsonParse(raw) = "number" -> NullResponse
    [] OTHER -> IF TruthyText(Field(raw, "type")) THEN MessageOf(raw) ELSE NullResponse

\* The router's parse of each message text.
ResponseOf == [raw \in RawMessages |-> ParseWebViewResponse(raw)]

\* Variant of the logger that prints at every level in every build.
Logger_always(level, line) == {line}

\* logger.ts: debug, info and warn print in development only, error always.
Logger(level, line) == IF level = "error" \/ devBuild THEN {line} ELSE {}

\* const enableWebConsole = typeof __DEV__ !== "undefined" && __DEV__
EnableWebConsole == devBuild

\* What parseWebViewResponse logs, and at which level.
ParseLogLine(raw) ==
  CASE JsonParse(raw) \in {"throw", "null"} -> <<"error", "Failed to parse message">>
    [] JsonParse(raw) = "object" /\ TruthyText(Field(raw, "type")) -> <<>>
    [] OTHER -> <<"warn", "Invalid message format: missing type">>
ParseLogLineOf == [raw \in RawMessages |-> ParseLogLine(raw)]
ParseLog(raw) ==
  IF ParseLogLineOf[raw] = <<>> THEN {}
  ELSE Logger(ParseLogLineOf[raw][1], ParseLogLineOf[raw][2])

\* What handleWebViewMessage logs for a parsed message.
DispatchLog(response) ==
  Logger("info", "Received message from web")
    \cup CASE response.type = "console" ->
                IF screen = ForceScreen
                  THEN IF EnableWebConsole THEN Logger("info", "WebConsole") ELSE {}
                  ELSE {"WebConsole"}
           [] response.type = "error" -> Logger("error", "Canvas error")
           [] response.type \in RequestAliases \cup {AckType, "canvas.ready"} \cup InfoTypes ->
                Logger("info", response.type)
           [] OTHER -> Logger("warn", "Unknown message type")

\* No event handled yet.
NoHostEvent == [n |-> 0, kind |-> "none", raw |-> <<>>, dispatched |-> FALSE, log |-> {},
                reloaded |-> FALSE]
HostEvent(kind, raw, dispatched, log, reloaded) ==
  [n |-> 1 - lastEvent.n, kind |-> kind, raw |-> raw, dispatched |-> dispatched, log |-> log,
   reloaded |-> reloaded]

\* onMessage of the WebView: handleWebViewMessage for event.nativeEvent.data,
\* with its try/catch around the parse and the switch.
OnMessage(raw) ==
  /\ mounted
  /\ LET response == ResponseOf[raw]
     IN IF response = Thrown
          THEN /\ lastEvent' = HostEvent("message", raw, FALSE,
                                         Logger("error", "Failed to handle WebView message"),
                                         FALSE)
               /\ UNCHANGED <<canSendAuth, authQueued, sessionSent, error, loading, sendCalls,
                              sessionFetches, requested, acked>>
        ELSE IF response = NullResponse
          THEN /\ lastEvent' = HostEvent("message", raw, FALSE, ParseLog(raw), FALSE)
               /\ UNCHANGED <<canSendAuth, authQueued, sessionSent, error, loading, sendCalls,
                              sessionFetches, requested, acked>>
        ELSE /\ lastEvent' = HostEvent("message", raw, TRUE,
                                       ParseLog(raw) \cup DispatchLog(response), FALSE)
             /\ Dispatch(response)
  /\ UNCHANGED <<screen, bridgeUser, urlArgs, webviewUri, authRetryCount, timers, injections, loadEnds>>
  /\ UNCHANGED <<mounted, devBuild, navChanges, layoutVars, authVars>>

\* The provider's session of user u: its access and refresh token.
SessionOf(u) == [access_token |-> <<"access", u>>, refresh_token |-> <<"refresh", u>>]

\* Variant of InjectedJs with the two tokens exchanged.
InjectedJs_swapped(session) ==
  <<"supabase-session", session.refresh_token, session.access_token>>

\* The message of the injected script: type "supabase-session" with the
\* access_token and refresh_token of the session getSession returned.
InjectedJs(session) ==
  <<"supabase-session", session.access_token, session.refresh_token>>

\* The kinds of the recorded event of an attempt, by what getSession gave.
AttemptKind == [outcome \in SessionOutcomes |->
                  CASE outcome = "session" -> "getSession: session"
                    [] outcome = "none" -> "getSession: none"
                    [] outcome = "throw" -> "getSession: throw"]

\* A pending call of sendAuthToWeb resumes with what supabase.auth.getSession()
\* gives when it returns: the provider's current session, no session, or a
\* throw. What is given to injectJavaScript is recorded.
OnGetSession ==
  /\ \E cap \in BagToSet(sendCalls), threw \in BOOLEAN :
       LET outcome == IF threw THEN "throw"
                      ELSE IF provSession = NoUser THEN "none" ELSE "session"
           injected == outcome = "session" /\ mounted
           line == CASE outcome = "session" -> Logger("info", "Auth session injected")
                     [] outcome = "none" -> Logger("warn", "No active session found")
                     [] outcome = "throw" -> Logger("error", "Failed to send auth session")
       IN /\ SessionSettle(cap, outcome)
          /\ lastEvent' = HostEvent(AttemptKind[outcome],
                                    IF injected THEN InjectedJs(SessionOf(provSession)) ELSE <<>>,
                                    injected, line, FALSE)
  /\ UNCHANGED <<mounted, devBuild, navChanges>>

\* onLoadEnd of the WebView: handleLoadEnd for e.nativeEvent.url.
OnLoadEnd(url) ==
  /\ LoadEnd(url)
  /\ lastEvent' = HostEvent("loadEnd", url, FALSE, Logger("info", "Load end"), FALSE)
  /\ UNCHANGED <<mounted, devBuild, navChanges>>

\* `${error.description} (Code: ${error.code})` and
\* `HTTP ${error.statusCode}: ${error.description}`: a property the event
\* does not have reads "undefined".
Descriptions == {"undefined", "net::ERR_FAILED"}
Codes == {"-2"}
StatusCodes == {"404"}
WebViewErrorText(description, code) == <<description, " (Code: ", code, ")">>
HttpErrorText(statusCode, description) == <<"HTTP ", statusCode, ": ", description>>

\* handleWebViewError
HandleWebViewError(description, code) ==
  /\ mounted
  /\ error' = WebViewErrorText(description, code)
  /\ loading' = FALSE
  /\ lastEvent' = HostEvent("error", <<>>, FALSE, Logger("error", "WebView error"), FALSE)
  /\ UNCHANGED <<screen, bridgeUser, urlArgs, webviewUri, sessionSent, canSendAuth, authQueued,
                 authRetryCount, sendCalls, timers, sessionFetches, injections, loadEnds,
                 requested, acked>>
  /\ UNCHANGED <<mounted, devBuild, navChanges, layoutVars, authVars>>

\* handleWebViewHTTPError
HandleWebViewHTTPError(statusCode, description) ==
  /\ mounted
  /\ error' = HttpErrorText(statusCode, description)
  /\ loading' = FALSE
  /\ lastEvent' = HostEvent("httpError", <<>>, FALSE, Logger("error", "WebView HTTP error"),
                            FALSE)
  /\ UNCHANGED <<screen, bridgeUser, urlArgs, webviewUri, sessionSent, canSendAuth, authQueued,
                 authRetryCount, sendCalls, timers, sessionFetches, injections, loadEnds,
                 requested, acked>>
  /\ UNCHANGED <<mounted, devBuild, navChanges, layoutVars, authVars>>

\* Variant of the Retry press that leaves the overlay state as it is.
Retry_reloadOnly ==
  /\ mounted
  /\ error # NoError
  /\ lastEvent' = HostEvent("retry", <<>>, FALSE, {}, TRUE)
  /\ UNCHANGED <<error, loading>>
  /\ UNCHANGED <<screen, bridgeUser, urlArgs, webviewUri, sessionSent, canSendAuth, authQueued,
                 authRetryCount, sendCalls, timers, sessionFetches, injections, loadEnds,
                 requested, acked>>
  /\ UNCHANGED <<mounted, devBuild, navChanges, layoutVars, authVars>>

\* onPress of Retry, which the error overlay shows: setError(null),
\* setLoading(true), webViewRef.current?.reload().
Retry ==
  /\ mounted
  /\ error # NoError
  /\ error' = NoError
  /\ loading' = TRUE
  /\ lastEvent' = HostEvent("retry", <<>>, FALSE, {}, TRUE)
  /\ UNCHANGED <<screen, bridgeUser, urlArgs, webviewUri, sessionSent, canSendAuth, authQueued,
                 authRetryCount, sendCalls, timers, sessionFetches, injections, loadEnds,
                 requested, acked>>
  /\ UNCHANGED <<mounted, devBuild, navChanges, layoutVars, authVars>>

\* handleNavigationStateChange for navState.url.
HandleNavigationStateChange(url) ==
  /\ mounted
  /\ navChanges < MaxNavChanges
  /\ navChanges' = navChanges + 1
  /\ timers' = timers
       (+) (IF screen = ForceScreen /\ IsBridgePath(url)
              THEN SetToBag({LoadedTimer(BridgeLoadedMs, 0)}) ELSE EmptyBag)
       (+) (IF IsProjectPath(url)
              THEN SetToBag({LoadedTimer(ProjectLoadedMs, 0)}) ELSE EmptyBag)
  /\ UNCHANGED <<screen, bridgeUser, urlArgs, webviewUri, sessionSent, canSendAuth, authQueued,
                 authRetryCount, error, loading, sendCalls, sessionFetches, injections,
                 loadEnds, requested, acked>>
  /\ UNCHANGED <<mounted, devBuild, lastEvent, layoutVars, authVars>>

\* The screen is unmounted (router.back(), a navigation away). The component
\* has no effect, hence no cleanup: timers and calls in progress stay.
Unmount ==
  /\ mounted
  /\ mounted' = FALSE
  /\ UNCHANGED <<webVars, devBuild, navChanges, lastEvent, layoutVars, authVars>>

\* useLocalSearchParams() returns another projectId to the mounted screen,
\* which renders again: editorURL is built from the new id, while
\* useState(editorURL) keeps the value of the first render and every other
\* useState keeps its state (the component has no effect on projectId).
ProjectIdChange(projectId) ==
  /\ mounted
  /\ projectId # urlArgs.projectId
  /\ urlArgs' = [urlArgs EXCEPT !.projectId = projectId]
  /\ UNCHANGED <<screen, bridgeUser, webviewUri, sessionSent, canSendAuth, authQueued,
                 authRetryCount, error, loading, sendCalls, timers, sessionFetches,
                 injections, loadEnds, requested, acked>>
  /\ UNCHANGED <<hostVars, layoutVars, authVars>>

\* ------------------------------------------------------------ root layout

\* setTimeout(..., 12000) of the startup watchdog
WatchdogMs == 12000

\* The useAuthStatus() of RootLayoutInner is the first hook; authReady is its
\* ready state.
Layout == 1
LayoutMounted == hookPc[Layout] = "mounted"
LayoutAuthReady == hookReady[Layout]

\* No timer pending; the dependencies of an effect that has not run yet.
NoTimer == <<>>
NoDeps == <<>>
WatchdogDeps == <<isReady, LayoutAuthReady>>

\* What RootLayoutInner renders once the environment is complete: the app,
\* the plain spinner, or "Startup is taking longer than expected".
LayoutView ==
  IF ~isReady \/ ~LayoutAuthReady
    THEN IF startupTimedOut THEN "timedOut" ELSE "spinner"
    ELSE "app"

\* The first effect: the startup work ends and `if (mounted) setIsReady(true)`.
StartupDone ==
  /\ LayoutMounted
  /\ ~isReady
  /\ isReady' = TRUE
  /\ UNCHANGED <<startupTimedOut, watchdog, effectDeps, appVars, cacheVars>>
  /\ UNCHANGED <<webVars, hostVars, authVars>>

\* Variant of the watchdog effect whose cleanup leaves the timer.
WatchdogEffect_noCleanup ==
  /\ LayoutMounted
  /\ effectDeps # WatchdogDeps
  /\ effectDeps' = WatchdogDeps
  /\ watchdog' = IF isReady /\ ~LayoutAuthReady THEN <<WatchdogMs>> ELSE watchdog
  /\ UNCHANGED <<isReady, startupTimedOut, appVars, cacheVars>>
  /\ UNCHANGED <<webVars, hostVars, authVars>>

\* The watchdog effect runs after a render in which [isReady, authReady]
\* changed: the cleanup of its last run (clearTimeout), then its body.
WatchdogEffect ==
  /\ LayoutMounted
  /\ effectDeps # WatchdogDeps
  /\ effectDeps' = WatchdogDeps
  /\ watchdog' = IF isReady /\ ~LayoutAuthReady THEN <<WatchdogMs>> ELSE NoTimer
  /\ UNCHANGED <<isReady, startupTimedOut, appVars, cacheVars>>
  /\ UNCHANGED <<webVars, hostVars, authVars>>

\* The watchdog's timer fires: setStartupTimedOut(true).
WatchdogFire ==
  /\ watchdog # NoTimer
  /\ watchdog' = NoTimer
  /\ startupTimedOut' = TRUE
  /\ UNCHANGED <<isReady, effectDeps, appVars, cacheVars>>
  /\ UNCHANGED <<webVars, hostVars, authVars>>

\* ------------------------------------------------------------ protected layout

\* The useAuthStatus() of AppLayout is the second hook.
App == 2
AppMounted == hookPc[App] = "mounted"
AppDeps == <<hookReady[App], hookUser[App]>>

\* What AppLayout renders: the spinner while auth is not ready or there is no
\* user, the protected Stack otherwise.
AppView ==
  IF ~hookReady[App] THEN "spinner"
  ELSE IF hookUser[App] = NoUser THEN "spinner"
  ELSE "stack"

\* Variant of the redirect effect without the didRedirectRef test.
AppEffect_noRef ==
  /\ AppMounted
  /\ appEffectDeps # AppDeps
  /\ appEffectDeps' = AppDeps
  /\ IF hookReady[App] /\ hookUser[App] = NoUser
       THEN /\ didRedirectRef' = TRUE
            /\ replaceCalls' = replaceCalls + 1
       ELSE UNCHANGED <<didRedirectRef, replaceCalls>>
  /\ UNCHANGED <<isReady, startupTimedOut, watchdog, effectDeps, cacheVars>>
  /\ UNCHANGED <<webVars, hostVars, authVars>>

\* The effect of AppLayout runs after a render in which [authReady, user]
\* changed (router is stable): router.replace("/") once auth is ready with no
\* user, unless the ref says it was done.
AppEffect ==
  /\ AppMounted
  /\ appEffectDeps # AppDeps
  /\ appEffectDeps' = AppDeps
  /\ IF hookReady[App] /\ hookUser[App] = NoUser /\ ~didRedirectRef
       THEN /\ didRedirectRef' = TRUE
            /\ replaceCalls' = replaceCalls + 1
       ELSE UNCHANGED <<didRedirectRef, replaceCalls>>
  /\ UNCHANGED <<isReady, startupTimedOut, watchdog, effectDeps, cacheVars>>
  /\ UNCHANGED <<webVars, hostVars, authVars>>

\* ------------------------------------------------------------ cache
\* A storage key is the sequence of its characters.

\* "cache:", and "cache:t" for the keys of CACHE_KEYS ("cache:textiles", ...)
CachePrefix == <<"c", "a", "c", "h", "e", ":">>
CacheTextiles == CachePrefix \o <<"t">>
\* "app:t" for THEME_KEY, "sb-cache:t" for a key of the provider's session
\* (`sb-...`), here one that holds the text "cache:"
ThemeKey == <<"a", "p", "p", ":", "t">>
AuthTokenKey == <<"s", "b", "-">> \o CacheTextiles
\* the keys AsyncStorage may hold: the above with "cache" and "Cache:t"
StoredKeys == { CacheTextiles, CachePrefix, <<"c", "a", "c", "h", "e">>,
                <<"C", "a", "c", "h", "e", ":", "t">>, AuthTokenKey, ThemeKey }

Absent == "absent"
NoWrite == <<>>
ClearIds == 1..NumClears
IdleClear == [pc |-> "idle", allKeys |-> {}, remove |-> {}, by |-> "none"]
otherLayoutVars == <<isReady, startupTimedOut, watchdog, effectDeps, appVars>>

\* Variant of StartsWith that looks for the prefix anywhere in the key.
StartsWith_includes(key, prefix) == Includes(key, prefix)

\* String.prototype.startsWith
StartsWith(key, prefix) ==
  /\ Len(key) >= Len(prefix)
  /\ SubSeq(key, 1, Len(prefix)) = prefix

\* AsyncStorage.getAllKeys()
AllKeys == { k \in StoredKeys : storage[k] # Absent }

\* clearAllCache() is called and reaches `await AsyncStorage.getAllKeys()`.
ClearAllCache(by) ==
  \E c \in ClearIds :
    /\ clears[c].pc = "idle"
    /\ \A d \in ClearIds : d < c => clears[d].pc # "idle"
    /\ clears' = [clears EXCEPT ![c] = [pc |-> "getAllKeys", allKeys |-> {}, remove |-> {},
                                        by |-> by]]

\* The DataProvider's effect on a logout: `void clearAllCache()`.
LogoutClear ==
  /\ ClearAllCache("logout")
  /\ UNCHANGED <<storage, writing, cacheWrites>>
  /\ UNCHANGED <<otherLayoutVars, webVars, hostVars, authVars>>

\* clearAllCache() resumes after getAllKeys: the keys are filtered, and
\* multiRemove is awaited when there is a key to remove; a throw is caught
\* and logged.
GetAllKeysSettle(c) ==
  /\ clears[c].pc = "getAllKeys"
  /\ \E ok \in BOOLEAN :
       LET cacheKeysToRemove == { k \in AllKeys : StartsWith(k, CachePrefix) }
       IN clears' = [clears EXCEPT ![c] =
                       IF ~ok THEN [@ EXCEPT !.pc = "failed"]
                       ELSE [@ EXCEPT !.pc = IF cacheKeysToRemove = {} THEN "done"
                                             ELSE "multiRemove",
                                      !.allKeys = AllKeys,
                                      !.remove = cacheKeysToRemove]]
  /\ UNCHANGED <<storage, writing, cacheWrites>>
  /\ UNCHANGED <<otherLayoutVars, webVars, hostVars, authVars>>

\* clearAllCache() resumes after multiRemove: the keys are removed; when the
\* call throws, any part of them may have been.
MultiRemoveSettle(c) ==
  /\ clears[c].pc = "multiRemove"
  /\ \E ok \in BOOLEAN, removed \in SUBSET clears[c].remove :
       /\ ok => removed = clears[c].remove
       /\ storage' = [k \in StoredKeys |-> IF k \in removed THEN Absent ELSE storage[k]]
       /\ clears' = [clears EXCEPT ![c].pc = IF ok THEN "done" ELSE "failed"]
  /\ UNCHANGED <<writing, cacheWrites>>
  /\ UNCHANGED <<otherLayoutVars, webVars, hostVars, authVars>>

\* setCachedData(key, data) up to `await AsyncStorage.setItem`: an entry over
\* MAX_CACHE_CHARS is skipped.
SetCachedData(key) ==
  /\ writing = NoWrite
  /\ cacheWrites < MaxWrites
  /\ cacheWrites' = cacheWrites + 1
  /\ \E tooLarge \in BOOLEAN : writing' = IF tooLarge THEN NoWrite ELSE key
  /\ UNCHANGED <<storage, clears>>
  /\ UNCHANGED <<otherLayoutVars, webVars, hostVars, authVars>>

\* setCachedData resumes after setItem: the entry is stored; on a storage-full
\* error clearAllCache() is called; another error is logged.
SetItemSettle ==
  /\ writing # NoWrite
  /\ writing' = NoWrite
  /\ \E outcome \in {"ok", "full", "error"} :
       CASE outcome = "ok" ->
              /\ storage' = [storage EXCEPT ![writing] = "new"]
              /\ UNCHANGED clears
         [] outcome = "full" ->
              /\ ClearAllCache("full")
              /\ UNCHANGED storage
         [] outcome = "error" ->
              UNCHANGED <<storage, clears>>
  /\ UNCHANGED cacheWrites
  /\ UNCHANGED <<otherLayoutVars, webVars, hostVars, authVars>>

\* The provider's storage adapter writes or removes its session key.
ProviderStorage ==
  /\ \E v \in {"new", Absent} :
       /\ v # storage[AuthTokenKey]
       /\ storage' = [storage EXCEPT ![AuthTokenKey] = v]
  /\ UNCHANGED <<clears, writing, cacheWrites>>
  /\ UNCHANGED <<otherLayoutVars, webVars, hostVars, authVars>>

NextCache ==
  \/ LogoutClear
  \/ \E c \in ClearIds : GetAllKeysSettle(c)
  \/ \E c \in ClearIds : MultiRemoveSettle(c)
  \/ SetCachedData(CacheTextiles)
  \/ SetItemSettle
  \/ ProviderStorage

\* ------------------------------------------------------------ specification

Init ==
  /\ cachedUser = NoUser
  /\ listeners = {}
  /\ readyListeners = {}
  /\ authReady = FALSE
  /\ lastAuthEvent = NoEvent
  /\ lastAuthUserId = NoUser
  /\ initPromise = "null"
  /\ hookPc = [h \in Hooks |-> "unmounted"]
  /\ hookUser = [h \in Hooks |-> NoUser]
  /\ hookReady = [h \in Hooks |-> FALSE]
  /\ soPc = [s \in SignOuts |-> "idle"]
  /\ provSession \in MaybeUser
  /\ provListeners = 0
  /\ provEvents = <<>>
  /\ provEmitted = 0
  /\ getSessionCalls = 0
  /\ ensureCalls = 0
  /\ remoteSignOutCalls = 0
  /\ notifyCalls = 0
  /\ readyNotifyCalls = 0
  /\ lastPub = [src |-> "none", user |-> NoUser]
  /\ lastHandledKey = Null
  /\ lastHandledAt = 0
  /\ inflight = [exchangeCodeForSession |-> 0, handoffPost |-> 0, setSession |-> 0]
  /\ alert = Null
  /\ now = StartMs
  /\ baseUrlSet \in BOOLEAN
  /\ trackedAt = Never
  /\ trackedFetch = [posts |-> 0, res |-> "none"]
  /\ lastRedirect = [n |-> 0, url |-> <<>>, did |-> "nothing", recent |-> FALSE]
  /\ screen \in Screens
  /\ bridgeUser \in {NoUser, "u1"}
  /\ urlArgs \in UrlArgs
  /\ webviewUri = BuildEditorURL(urlArgs.baseURL, urlArgs.projectId, urlArgs.fromApp,
                                 urlArgs.accessToken, urlArgs.refreshToken)
  /\ sessionSent = FALSE
  /\ canSendAuth = FALSE
  /\ authQueued = FALSE
  /\ authRetryCount = 0
  /\ error = NoError
  /\ loading = TRUE
  /\ sendCalls = EmptyBag
  /\ timers = EmptyBag
  /\ sessionFetches = 0
  /\ injections = 0
  /\ loadEnds = 0
  /\ requested = [a \in RequestAliases |-> 0]
  /\ acked = FALSE
  /\ mounted = TRUE
  /\ devBuild \in BOOLEAN
  /\ navChanges = 0
  /\ lastEvent = NoHostEvent
  /\ isReady = FALSE
  /\ startupTimedOut = FALSE
  /\ watchdog = NoTimer
  /\ effectDeps = NoDeps
  /\ didRedirectRef = FALSE
  /\ appEffectDeps = NoDeps
  /\ replaceCalls = 0
  /\ storage = [k \in StoredKeys |-> "old"]
  /\ clears = [c \in ClearIds |-> IdleClear]
  /\ writing = NoWrite
  /\ cacheWrites = 0

\* The Session Store with the provider.
NextStore ==
  \/ \E h \in Hooks : MountHook(h)
  \/ \E h \in Hooks : UnmountHook(h)
  \/ RestoreSettle
  \/ OnAuthStateChange
  \/ \E s \in SignOuts : SignOutStart(s)
  \/ \E s \in SignOuts : SignOutAfterInit(s)
  \/ \E s \in SignOuts : SignOutRemoteSettle(s)
  \/ ProviderEmit

\* The redirect handler with the provider and the clock.
NextRedirect ==
  \/ LinkingUrl
  \/ ExchangeCodeSettle
  \/ HandoffFetchSettle
  \/ SetSessionSettle
  \/ Tick

\* The session handshake of the hosting screen: the document's requests and
\* acknowledgment, load ends, timers and getSession results.
HandshakeTypes == RequestAliases \cup {AckType}
NextBridge ==
  \/ \E type \in HandshakeTypes : HandleWebViewMessage(Response(type, Null))
  \/ \E url \in LoadedUrls : HandleLoadEnd(url)
  \/ TimerFire
  \/ GetSessionSettle

\* The rest of the project screen: every message text, navigation and error
\* events, the Retry press and the unmount.
NextHost ==
  \/ \E raw \in RawMessages : OnMessage(raw)
  \/ \E url \in LoadedUrls : HandleNavigationStateChange(url)
  \/ \E d \in Descriptions, c \in Codes : HandleWebViewError(d, c)
  \/ \E c \in StatusCodes, d \in Descriptions : HandleWebViewHTTPError(c, d)
  \/ Retry
  \/ Unmount
  \/ \E p \in ProjectIds : ProjectIdChange(p)
  \/ OnGetSession

\* The root layout's startup.
NextLayout ==
  \/ StartupDone
  \/ WatchdogEffect
  \/ WatchdogFire

\* The layout of the protected route group.
NextApp == AppEffect

Next ==
  NextStore \/ NextRedirect \/ NextBridge \/ NextHost \/ NextLayout \/ NextApp \/ NextCache

Spec == Init /\ [][Next]_vars

\* The Session Store alone: no redirect arrives.
\* No project screen is open.
NoScreen ==
  /\ screen = ForceScreen
  /\ bridgeUser = NoUser
  /\ urlArgs = ScreenArgs
  /\ devBuild = FALSE
InitStore == Init /\ baseUrlSet = TRUE /\ NoScreen
SpecStore == InitStore /\ [][NextStore]_vars

\* The redirect handler alone, from the signed-out state in which a sign-in
\* redirect is awaited: no component has mounted, so the store is idle.
InitRedirect == Init /\ provSession = NoUser /\ NoScreen
SpecRedirect == InitRedirect /\ [][NextRedirect]_vars

\* A sign-in by authorization code with the Session Store running: components
\* mount, the store restores and subscribes, the redirect arrives and its code
\* is exchanged.
NextSignIn ==
  \/ \E h \in Hooks : MountHook(h)
  \/ RestoreSettle
  \/ OnAuthStateChange
  \/ LinkingCodeUrl
  \/ ExchangeCodeSettle
InitSignIn == InitRedirect /\ baseUrlSet = TRUE
SpecSignIn == InitSignIn /\ [][NextSignIn]_vars

\* The handoff path of the redirect handler, its exchange calls observed.
NextHandoff ==
  \/ LinkingHandoffUrl
  \/ HandoffFetchSettleObserved
  \/ SetSessionSettle
  \/ Tick
InitHandoff == InitRedirect /\ baseUrlSet = TRUE
SpecHandoff == InitHandoff /\ [][NextHandoff]_vars

\* The same with time passing: every timer the handler has set comes due. The
\* exchange endpoint is the environment and owes no answer.
SpecHandoffFair == SpecHandoff /\ WF_vars(Tick)

\* ------------------------------------------------------------ Session Store claims

Settled == initPromise \in {"resolved", "rejected"}

\* C1: however many times ensureInitialized() is called (hook mounts, signOut),
\* the restore call supabase.auth.getSession() is issued exactly once, the
\* provider listener is registered at most once, and a caller awaiting the
\* returned promise (signOut) resumes only after the restore call completed.
C1_SingleFlight ==
  /\ getSessionCalls <= 1
  /\ provListeners <= 1
  /\ (ensureCalls > 0 => getSessionCalls = 1)
  /\ (initPromise = "null" <=> ensureCalls = 0)
  /\ \A s \in SignOuts : soPc[s] \in {"awaitRemote", "resolved", "rejected"} => Settled

\* Three calls (two hook mounts and a signOut), one restore, and the awaiting
\* signOut has resumed.
C1_Witness ==
  /\ ensureCalls >= 3
  /\ getSessionCalls = 1
  /\ \E s \in SignOuts : soPc[s] = "awaitRemote"

\* C2: an INITIAL_SESSION event for the subject the restore call has just
\* published is suppressed, so that subscribers are not called a second time
\* for it.
C2_InitialSessionSuppressed ==
  [][(lastPub.src = "restore" /\ lastPub'.src = "INITIAL_SESSION")
       => lastPub'.user # lastPub.user]_vars

\* C3: once the restore call has settled, by success or by failure, the store
\* is subscribed to the provider's change-event stream.
C3_SubscribedAfterRestore == Settled => provListeners = 1

\* C4: the ready flag is true once the restore has settled, never goes back to
\* false, and notifyReady is called exactly once in total.
C4_ReadyOnce ==
  /\ [](readyNotifyCalls <= 1)
  /\ [](authReady <=> readyNotifyCalls = 1)
  /\ [](Settled => authReady)
  /\ [][authReady => authReady']_vars

\* signOut() has run, the restore has settled, a provider event has been
\* published since, and notifyReady was called once.
C4_Witness ==
  /\ Settled
  /\ readyNotifyCalls = 1
  /\ \E s \in SignOuts : soPc[s] # "idle"
  /\ lastPub.src \in AuthEvents

SignOutSettles(s) == soPc[s] \in {"awaitInit", "awaitRemote"} /\ soPc'[s] \in {"resolved", "rejected"}

\* C5: at the moment signOut() settles, resolving or rejecting, the cached
\* identity is null.
C5_NullWhenSignOutSettles ==
  [][\A s \in SignOuts : SignOutSettles(s) => cachedUser' = NoUser]_vars

\* The remote sign-out call threw: signOut() has rejected, the provider still
\* holds a session, and the cached identity is null.
C5_Witness ==
  /\ \E s \in SignOuts : soPc[s] = "rejected"
  /\ cachedUser = NoUser
  /\ lastPub.src = "signOutFinally"
  /\ provSession \in Users
  /\ remoteSignOutCalls = 1

\* C6: the first step of signOut(), before any suspension point and before the
\* remote call is issued, clears the cached identity and calls the identity
\* subscribers with null.
C6_OptimisticClearFirst ==
  [][\A s \in SignOuts :
       (soPc[s] = "idle" /\ soPc'[s] # "idle")
         => /\ cachedUser' = NoUser
            /\ lastPub' = [src |-> "signOutOptimistic", user |-> NoUser]
            /\ notifyCalls' = notifyCalls + 1
            /\ \A h \in listeners : hookUser'[h] = NoUser
            /\ remoteSignOutCalls' = remoteSignOutCalls
            /\ soPc'[s] = "awaitInit"]_vars

\* signOut() has cleared the identity of a signed-in user, a mounted component
\* has been told so, and the remote call is not yet issued.
C6_Witness ==
  /\ \E s \in SignOuts : soPc[s] = "awaitInit"
  /\ lastPub.src = "signOutOptimistic"
  /\ remoteSignOutCalls = 0
  /\ provSession \in Users
  /\ Settled
  /\ \E h \in Hooks : hookPc[h] = "mounted" /\ hookUser[h] = NoUser

\* ------------------------------------------------------------ redirect claims

RedirectStep == lastRedirect'.n # lastRedirect.n
Param1(url, name) == Get(ParseQueryFromUrl(url), name)
HasError == [u \in RedirectUrls |-> Truthy(Param1(u, "error_description")) \/ Truthy(Param1(u, "error"))]
ErrorText == [u \in RedirectUrls |-> IF Truthy(Param1(u, "error_description"))
                                       THEN Param1(u, "error_description")
                                       ELSE Param1(u, "error")]
HasCode == [u \in RedirectUrls |-> Truthy(Param1(u, "code"))]
HasHandoff == [u \in RedirectUrls |-> Truthy(Param1(u, "handoff"))]
HandoffKey == [u \in RedirectUrls |-> <<"handoff", ":">> \o Param1(u, "handoff")]

\* scheme and host are exactly rtastudio-app://auth
IsCallbackUrl(url) ==
  /\ Len(url) >= Len(Callback)
  /\ SubSeq(url, 1, Len(Callback)) = Callback
  /\ (Len(url) = Len(Callback) \/ url[Len(Callback) + 1] \in {"?", "/", "#"})

\* C7 (as stated): a handoff code handled less than 5 s ago causes no second
\* exchange call when it arrives again.
C7_NoExchangeWithin5s == ~(lastRedirect.did = "handoffPost" /\ lastRedirect.recent)

\* C7 (amended): a handoff code that is the most recently handled redirect key
\* and was handled less than 5 s ago is a silent no-op when it arrives again:
\* no call is issued, no error is alerted, and the record is left as it is.
C7_LastKeyDeduplicated ==
  [][(/\ RedirectStep
      /\ lastRedirect'.url \in AcceptedUrls
      /\ ~HasError[lastRedirect'.url]
      /\ ~HasCode[lastRedirect'.url]
      /\ HasHandoff[lastRedirect'.url]
      /\ HandoffKey[lastRedirect'.url] = lastHandledKey
      /\ now - lastHandledAt < DedupWindowMs)
       => /\ lastRedirect'.did = "skipped"
          /\ UNCHANGED <<inflight, alert, lastHandledKey, lastHandledAt, provSession>>]_vars

\* The same handoff code arrived again after the clock advanced, still inside
\* the window, and was skipped.
C7_Witness ==
  /\ lastRedirect.did = "skipped"
  /\ HasHandoff[lastRedirect.url]
  /\ ~HasCode[lastRedirect.url]
  /\ now > lastHandledAt
  /\ inflight.handoffPost = 0

\* C8: a redirect URL with a (non-empty) error or error_description is answered
\* by an authentication error with that text; no call of any kind is issued,
\* also when code or handoff is present, and the de-duplication record stays.
C8_ErrorNoExchange ==
  [][(RedirectStep /\ lastRedirect'.url \in AcceptedUrls /\ HasError[lastRedirect'.url])
       => /\ lastRedirect'.did = "error"
          /\ alert' = ErrorText[lastRedirect'.url]
          /\ UNCHANGED <<inflight, lastHandledKey, lastHandledAt, provSession, provEvents>>]_vars

\* An error URL that also carries the code handled just before: alerted, and
\* the record of that code is still there.
C8_Witness ==
  /\ lastRedirect.did = "error"
  /\ HasCode[lastRedirect.url]
  /\ alert = <<"access_denied">>
  /\ lastHandledKey = <<"code", ":", "X">>
  /\ inflight.exchangeCodeForSession = 1

\* C9: for a URL with both a code and a handoff code only the
\* authorization-code exchange is performed (or skipped as a duplicate); the
\* handoff POST and setSession are issued only for URLs without a code.
C9_CodePreferred ==
  [][/\ (RedirectStep /\ lastRedirect'.url \in AcceptedUrls /\ ~HasError[lastRedirect'.url]
           /\ HasCode[lastRedirect'.url] /\ HasHandoff[lastRedirect'.url])
          => /\ lastRedirect'.did \in {"codeExchange", "skipped"}
             /\ inflight'.handoffPost = inflight.handoffPost
             /\ inflight'.setSession = inflight.setSession
     /\ inflight'.handoffPost > inflight.handoffPost
          => (RedirectStep /\ ~HasCode[lastRedirect'.url])
     /\ inflight'.setSession > inflight.setSession
          => inflight'.handoffPost < inflight.handoffPost]_vars

\* A URL with both was skipped as a duplicate of its code.
C9_Witness ==
  /\ lastRedirect.did = "skipped"
  /\ HasCode[lastRedirect.url]
  /\ HasHandoff[lastRedirect.url]

\* C10: a URL whose scheme and host are not exactly the callback is ignored.
C10_OnlyExactCallback ==
  lastRedirect.did \notin {"nothing", "ignored"} => IsCallbackUrl(lastRedirect.url)

\* URLs whose only exchange parameter is the handoff code X.
IsTrackedHandoff == [u \in RedirectUrls |-> /\ u \in AcceptedUrls
                                             /\ ~HasError[u] /\ ~HasCode[u] /\ HasHandoff[u]
                                             /\ HandoffKey[u] = TrackedKey]
FailedResults == {"non2xx", "invalid"}
FailureText == [r \in FailedResults |-> IF r = "non2xx" THEN <<"Sign-in exchange failed">>
                                                        ELSE <<"Invalid exchange response">>]

\* C11 (as stated): once the exchange of a handoff code answered non-2xx or
\* without tokens, a redelivery of the same redirect less than 5 s after it
\* was handled issues no exchange call.
C11_NoReexchangeWithin5s ==
  [][(/\ RedirectStep
      /\ IsTrackedHandoff[lastRedirect'.url]
      /\ trackedFetch.res \in FailedResults
      /\ trackedAt # Never
      /\ now - trackedAt < DedupWindowMs)
       => /\ lastRedirect'.did = "skipped"
          /\ inflight' = inflight]_vars

\* C11 (amended): when the exchange endpoint answers non-2xx or without both
\* tokens, the matching error is alerted, setSession is not called and the
\* provider's session stays; an exchange call is only ever issued by the
\* arrival of a redirect; and the same redirect arriving again less than 5 s
\* after it was handled, with no other key handled since, is skipped.
C11_FailureSurfacedNoRetry ==
  [][/\ (trackedFetch'.posts < trackedFetch.posts /\ trackedFetch'.res \in FailedResults)
          => /\ alert' = FailureText[trackedFetch'.res]
             /\ inflight' = [inflight EXCEPT !.handoffPost = @ - 1]
             /\ UNCHANGED <<provSession, provEvents, lastHandledKey, lastHandledAt>>
     /\ inflight'.handoffPost > inflight.handoffPost => RedirectStep
     /\ (/\ RedirectStep
         /\ IsTrackedHandoff[lastRedirect'.url]
         /\ trackedFetch.res \in FailedResults
         /\ lastHandledKey = TrackedKey
         /\ now - lastHandledAt < DedupWindowMs)
          => /\ lastRedirect'.did = "skipped"
             /\ UNCHANGED <<inflight, alert, trackedFetch, provSession>>]_vars

\* The exchange of handoff code X answered non-2xx, the error was alerted, and
\* the same redirect arrived again later inside the window and was skipped.
C11_Witness ==
  /\ lastRedirect.did = "skipped"
  /\ IsTrackedHandoff[lastRedirect.url]
  /\ trackedFetch = [posts |-> 0, res |-> "non2xx"]
  /\ alert = <<"Sign-in exchange failed">>
  /\ InflightCount = 0
  /\ now > lastHandledAt

\* C12: after a successful code exchange the store's subscribers are called
\* with the new identity exactly once: no publication of the signed-in
\* identity follows a publication of that same identity. (The exchange steps
\* leave the store's variables alone: ExchangeCodeSettle writes only the
\* provider's session and event queue.)
C12_NotifiedExactlyOnce ==
  [][(/\ provSession \in Users
      /\ notifyCalls' > notifyCalls
      /\ listeners # {}
      /\ lastPub'.user = provSession)
       => lastPub.user # provSession]_vars

\* C13: a handoff exchange call does not stay awaited for ever when the
\* endpoint never answers: the handler leaves the await by itself.
C13_ExchangeDoesNotHang ==
  (inflight.handoffPost > 0) ~> (inflight.handoffPost = 0)

\* ------------------------------------------------------------ hosting screen specification

\* A project screen is open for a signed-in user; the store and the redirect
\* handler are at rest.
InitBridge ==
  /\ Init
  /\ baseUrlSet = TRUE
  /\ provSession = "u1"
  /\ bridgeUser = "u1"
  /\ urlArgs = ScreenArgs
  /\ devBuild = FALSE
SpecBridge == InitBridge /\ [][NextBridge]_vars

\* ------------------------------------------------------------ hosting screen claims

\* C14: the handshake retry counter never exceeds the ceiling of 3.
C14_RetryCounterBounded == authRetryCount <= MAX_AUTH_RETRIES

\* A delivery attempt settles / settles without an injection / is counted as failed.
AttemptSettles == BagCardinality(sendCalls') < BagCardinality(sendCalls)
AttemptFails == AttemptSettles /\ injections' = injections
RetryAdded(delay) ==
  \E t \in BagToSet(timers') :
    /\ t.reason = "retry"
    /\ t.delay = delay
    /\ timers' = timers (+) SetToBag({t})

\* C15: when attempts keep failing, the n-th failure (n < 3) schedules one
\* retry after 1000 ms * n, the 3rd failure surfaces the terminal error and
\* schedules nothing, and there is no 4th failed attempt.
C15_ThreeFailuresThenGaveUp ==
  [][authRetryCount' = authRetryCount + 1
       => /\ authRetryCount' <= MAX_AUTH_RETRIES
          /\ IF authRetryCount' < MAX_AUTH_RETRIES
               THEN RetryAdded(RetryBaseMs * authRetryCount') /\ error' = error
               ELSE error' = GaveUpText /\ timers' = timers]_vars

\* C16: every attempt that delivers nothing, the one finding no session
\* included, is counted as a failure, and below the ceiling it schedules a
\* retry and surfaces no error.
C16_NoSessionIsTransient ==
  [][AttemptFails
       => /\ authRetryCount' = authRetryCount + 1
          /\ authRetryCount' < MAX_AUTH_RETRIES
               => (error' = error /\ RetryAdded(RetryBaseMs * authRetryCount'))]_vars

\* C17: the step that handles the 'session imported' acknowledgment while a
\* retry is pending sets the handshake delivered and leaves no retry timer
\* pending.
C17_AckCancelsRetries ==
  [][(screen = ForceScreen /\ ~acked /\ acked' /\ Pending(timers, "retry") # {})
       => (sessionSent' /\ Pending(timers', "retry") = {})]_vars

\* C18: when the document has posted each request alias once and nothing
\* else has triggered a delivery (no load end, no failed attempt), at most one
\* injection has been made.
C18_OneDeliveryForBothAliases ==
  (/\ \A a \in RequestAliases : requested[a] = 1
   /\ loadEnds = 0
   /\ authRetryCount = 0)
    => injections <= 1

\* A timer calling sendAuthToWeb without the force flag runs.
NonForcedRequest ==
  \E t \in BagToSet(timers) :
    /\ t.reason # "loaded"
    /\ ~t.force
    /\ timers' = timers (-) SetToBag({t})

\* C19: once sessionSent is true, a delivery request without the force flag
\* fetches nothing, injects nothing and changes no state.
C19_NonForcedIgnoredOnceDelivered ==
  [][(sessionSent /\ NonForcedRequest)
       => UNCHANGED <<sessionFetches, sendCalls, injections, sessionSent, canSendAuth,
                      authQueued, authRetryCount, error>>]_vars

\* The delivery path alone, for every argument list of buildEditorURL: the
\* document's requests and acknowledgment, retries and getSession results.
NextDelivery ==
  \/ \E type \in HandshakeTypes : HandleWebViewMessage(Response(type, Null))
  \/ TimerFire
  \/ GetSessionSettle
InitDelivery ==
  /\ Init
  /\ baseUrlSet = TRUE
  /\ provSession = "u1"
  /\ bridgeUser = "u1"
  /\ screen = ForceScreen
  /\ devBuild = FALSE
SpecDelivery == InitDelivery /\ [][NextDelivery]_vars

\* The parts of the WebView's URL, as URL and URLSearchParams read them.
UriHead == Split(webviewUri, "?")[1]
UriParams == ParseQueryFromUrl(webviewUri)
UriParamNames == { UriParams[i].k : i \in 1..Len(UriParams) }

NextUnmount ==
  \/ \E url \in LoadedUrls : HandleLoadEnd(url)
  \/ \E url \in LoadedUrls : HandleNavigationStateChange(url)
  \/ TimerFire
  \/ GetSessionSettle
  \/ Unmount
InitUnmount == InitBridge /\ screen = ForceScreen
SpecUnmount == InitUnmount /\ [][NextUnmount]_vars

\* C21: once the screen is unmounted, no credential fetch is issued, nothing
\* is injected and no state of the screen is updated.
C21_NothingRunsAfterUnmount ==
  [][~mounted => UNCHANGED <<sessionFetches, injections, sessionSent, canSendAuth, authQueued,
                             authRetryCount, error, loading>>]_vars

\* ------------------------------------------------------------ inbound router claims

\* The router of the screen of feedback.tsx, in both builds, with or without
\* a user: every message text, and getSession returning the session.
NextRouter ==
  \/ \E raw \in RawMessages : OnMessage(raw)
  \/ GetSessionReturns
InitRouter ==
  /\ Init
  /\ baseUrlSet = TRUE
  /\ provSession = "u1"
  /\ screen = ForceScreen
  /\ urlArgs = ScreenArgs
SpecRouter == InitRouter /\ [][NextRouter]_vars

\* The step in which the router handles the text raw.
Routed(raw) ==
  /\ lastEvent'.n # lastEvent.n
  /\ lastEvent'.kind = "message"
  /\ lastEvent'.raw = raw

\* C22: for every text that is not JSON, is JSON but not an object, or is an
\* object without a type, the router can always run and returns without
\* reaching its switch; loading, error and the handshake state stay as they
\* are, and nothing is fetched, injected or scheduled.
C22_InvalidInputDropped ==
  /\ [](mounted => \A raw \in InvalidRaw : ENABLED OnMessage(raw))
  /\ [][\A raw \in InvalidRaw :
          Routed(raw)
            => /\ ~lastEvent'.dispatched
               /\ UNCHANGED <<loading, error, sessionSent, canSendAuth, authQueued,
                              authRetryCount, sendCalls, timers, sessionFetches, injections,
                              requested, acked>>]_vars

\* Each kind of invalid text has been dropped at some point; here `null`
\* while a delivery is in progress and the document has been marked ready.
C22_Witness ==
  /\ lastEvent.kind = "message"
  /\ lastEvent.raw = <<"null">>
  /\ ~lastEvent.dispatched
  /\ "Failed to parse message" \in lastEvent.log
  /\ canSendAuth
  /\ sendCalls # EmptyBag
  /\ loading

\* C27: a ready message clears loading and error; an error report sets error
\* to payload.message, or to the default text when that is absent or empty,
\* and clears loading; either request alias marks the document ready to
\* receive and, for a signed-in user, starts a delivery whether or not the
\* session was delivered before.
C27_StateChangingDispatch ==
  [][/\ Routed(Json("canvas.ready")) => (loading' = FALSE /\ error' = NoError)
     /\ Routed(JsonWithMessage("error", "boom")) => (error' = <<"boom">> /\ loading' = FALSE)
     /\ (Routed(Json("error")) \/ Routed(JsonWithMessage("error", "")))
          => (error' = DefaultErrorText /\ loading' = FALSE)
     /\ \A a \in RequestAliases :
          Routed(Json(a))
            => /\ canSendAuth'
               /\ bridgeUser # NoUser
                    => /\ sessionFetches' = sessionFetches + 1
                       /\ sendCalls' = sendCalls (+) SetToBag({Cap})]_vars

\* A request alias has been handled after the session was delivered, and it
\* started another delivery.
C27_Witness ==
  /\ lastEvent.kind = "message"
  /\ lastEvent.raw = Json("request-supabase-session")
  /\ \E cap \in BagToSet(sendCalls) : cap.sessionSent
  /\ injections = 1
  /\ error = DefaultErrorText
  /\ ~loading

\* The step in which the router handles a message of an informational or
\* unknown type.
RoutedInfo == \E t \in InfoTypes \cup {UnknownType} : Routed(Json(t))

\* C28: a message of an informational or unknown type changes neither
\* loading, error nor the handshake state and starts no delivery; a console
\* message is mirrored to the host log in a development build and in no other.
C28_InformationalNoEffect ==
  [][/\ RoutedInfo
          => UNCHANGED <<loading, error, sessionSent, authQueued, canSendAuth, authRetryCount,
                         sendCalls, timers, sessionFetches, injections, requested, acked>>
     /\ Routed(Json("console")) => ("WebConsole" \in lastEvent'.log <=> devBuild)
     /\ (RoutedInfo /\ ~devBuild) => lastEvent'.log = {}]_vars

\* A console message has been handled in a production build while a delivery
\* was in progress and the overlay was up.
C28_Witness ==
  /\ lastEvent.kind = "message"
  /\ lastEvent.raw = Json("console")
  /\ lastEvent.dispatched
  /\ ~devBuild
  /\ lastEvent.log = {}
  /\ loading
  /\ sendCalls # EmptyBag

\* ------------------------------------------------------------ load-end claims

\* The screen of feedback.tsx with a document that posts nothing and a
\* provider whose session stays retrievable: load ends, navigation state
\* changes, timers and getSession returning the session.
NextSilent ==
  \/ \E url \in LoadedUrls : OnLoadEnd(url)
  \/ \E url \in LoadedUrls : HandleNavigationStateChange(url)
  \/ TimerFire
  \/ GetSessionReturns
InitSilent == InitBridge /\ screen = ForceScreen
SpecSilent == InitSilent /\ [][NextSilent]_vars

\* The error overlay of that screen: the WebView's error events, the Retry
\* press, and the load ends with their timers.
NextOverlay ==
  \/ \E d \in Descriptions, c \in Codes : HandleWebViewError(d, c)
  \/ \E c \in StatusCodes, d \in Descriptions : HandleWebViewHTTPError(c, d)
  \/ Retry
  \/ \E url \in LoadedUrls : OnLoadEnd(url)
  \/ TimerFire
  \/ GetSessionReturns
SpecOverlay == InitSilent /\ [][NextOverlay]_vars

\* The load ends of that screen with a document that requests the session.
NextLoadEnd ==
  \/ \E url \in LoadedUrls : OnLoadEnd(url)
  \/ TimerFire
  \/ GetSessionReturns
  \/ OnMessage(Json("auth.request"))
SpecLoadEnd == InitSilent /\ [][NextLoadEnd]_vars

\* The step in which the load end of url is handled, and the timers a step sets.
LoadEndOf(url) ==
  /\ lastEvent'.n # lastEvent.n
  /\ lastEvent'.kind = "loadEnd"
  /\ lastEvent'.raw = url
TimersSet == timers' (-) timers
Once(t) == CopiesIn(t, TimersSet) = 1

\* C23: every load end, whatever the handshake state, sets one timer that
\* calls sendAuthToWeb with force after 150 ms; on the bridge path it sets
\* three more, forced, after 700, 1700 and 3200 ms, and on any other path
\* none; no pending timer is removed.
C23_LoadEndSchedulesResends ==
  [][\A url \in LoadedUrls :
       LoadEndOf(url)
         => LET sends == { t \in BagToSet(TimersSet) : t.reason = "load-end" }
                staggered == { t \in BagToSet(TimersSet) : t.reason = "bridge-retry" }
            IN /\ timers' = timers (+) TimersSet
               /\ Cardinality(sends) = 1
               /\ \A t \in sends : t.force /\ t.delay = 150 /\ Once(t)
               /\ \A t \in staggered : t.force /\ Once(t)
               /\ IF IsBridgePath(url)
                    THEN /\ Cardinality(staggered) = 3
                         /\ { t.delay : t \in staggered } = {700, 1700, 3200}
                    ELSE staggered = {}]_vars

\* A load end on the bridge path was handled after the session had been
\* requested and delivered, and its four resend timers are pending.
C23_Witness ==
  /\ lastEvent.kind = "loadEnd"
  /\ IsBridgePath(lastEvent.raw)
  /\ canSendAuth
  /\ sessionSent
  /\ Cardinality({ t \in BagToSet(timers) :
                     t.batch = loadEnds /\ t.reason # "loaded" /\ t.force
                       /\ t.cap.sessionSent /\ t.cap.canSendAuth }) = 4

\* Nothing is pending: no timer and no getSession call.
Quiet == timers = EmptyBag /\ sendCalls = EmptyBag

\* C24: with a document that stays silent after its load on the bridge path,
\* every delivery attempt is the call of one of the timers set, so that once
\* the four timers of the load have run (the third staggered resend being the
\* last) four attempts were made and none follows; no error is set; and
\* loading is false once the timers clearing it have run.
C24_SilentBridgeLoad ==
  /\ [][sessionFetches' # sessionFetches
          => \E t \in BagToSet(timers) :
               /\ t.reason \in {"load-end", "bridge-retry"}
               /\ timers' = timers (-) SetToBag({t})]_vars
  /\ []((lastEvent.kind = "loadEnd" /\ IsBridgePath(lastEvent.raw) /\ loadEnds = 1 /\ Quiet)
           => (sessionFetches = 4 /\ injections = 4))
  /\ [](error = NoError)
  /\ []((lastEvent.kind = "loadEnd" /\ IsBridgePath(lastEvent.raw)
           /\ Pending(timers, "loaded") = {})
           => ~loading)

\* The one load, on the bridge path, is over: its timers have run, the
\* session was injected four times and the overlay is down.
C24_Witness ==
  /\ lastEvent.kind = "loadEnd"
  /\ IsBridgePath(lastEvent.raw)
  /\ loadEnds = 1
  /\ navChanges = 0
  /\ Quiet
  /\ injections = 4
  /\ ~loading
  /\ error = NoError

\* C25: once a load has ended and nothing is pending any more, the screen is
\* no longer loading, or it shows an error.
C25_LoadingEndsOrErrorShown ==
  (loadEnds > 0 /\ Quiet) => (~loading \/ error # NoError)

\* The step in which an event of the given kinds is handled.
Handled(kinds) == lastEvent'.n # lastEvent.n /\ lastEvent'.kind \in kinds

\* C26: an error event or an HTTP error event of the WebView sets error to a
\* text and clears loading; Retry can be pressed whenever an error is shown,
\* and it clears error, sets loading and reloads the document.
C26_ErrorAndRetry ==
  /\ [][/\ (Handled({"error", "httpError"})
              => (error' \notin {NoError, <<>>} /\ loading' = FALSE))
         /\ (Handled({"retry"})
              => (error' = NoError /\ loading' = TRUE /\ lastEvent'.reloaded))]_vars
  /\ []((mounted /\ error # NoError) => ENABLED Retry)

\* Retry was pressed on the overlay of an error event that came after the
\* session had been injected.
C26_Witness ==
  /\ lastEvent.kind = "retry"
  /\ lastEvent.reloaded
  /\ loading
  /\ error = NoError
  /\ injections > 0

\* ------------------------------------------------------------ startup claims

\* The app's startup: the components using useAuthStatus mount (the root
\* layout first among them), the session is restored, the provider reports,
\* and the root layout runs its startup work and its watchdog.
NextStartup ==
  \/ \E h \in Hooks : MountHook(h)
  \/ RestoreSettle
  \/ OnAuthStateChange
  \/ ProviderEmit
  \/ NextLayout
InitStartup == InitStore
SpecStartup == InitStartup /\ [][NextStartup]_vars

\* The watchdog effect has run for the current [isReady, authReady].
EffectsFlushed == effectDeps = WatchdogDeps

\* C29: while the startup work is done and auth is not ready, a 12 s timer is
\* pending until it fires, and its firing replaces the plain spinner by the
\* "taking longer than expected" view; once auth is ready the effect's
\* cleanup has cleared the timer, so that a watchdog that had not fired
\* never does, and the timed-out view is not shown.
C29_StartupWatchdog ==
  /\ []((LayoutMounted /\ EffectsFlushed /\ isReady /\ ~LayoutAuthReady /\ ~startupTimedOut)
           => watchdog = <<12000>>)
  /\ [][(~startupTimedOut /\ startupTimedOut' /\ ~LayoutAuthReady)
          => (LayoutView = "spinner" /\ LayoutView' = "timedOut")]_vars
  /\ []((LayoutAuthReady /\ EffectsFlushed) => watchdog = NoTimer)
  /\ [][(LayoutAuthReady /\ EffectsFlushed /\ ~startupTimedOut) => ~startupTimedOut']_vars
  /\ [](LayoutAuthReady => LayoutView # "timedOut")

\* The watchdog fired while the restoration of the session was still
\* pending: the timed-out view is shown.
C29_Witness ==
  /\ initPromise = "pending"
  /\ isReady
  /\ ~LayoutAuthReady
  /\ startupTimedOut
  /\ watchdog = NoTimer
  /\ LayoutView = "timedOut"

\* ------------------------------------------------------------ delivery claims

\* The load ends and requests of the screen of feedback.tsx for a signed-in
\* user whose session stays retrievable: every pending timer runs and every
\* getSession call returns.
SpecLoadEndFair == SpecLoadEnd /\ WF_vars(TimerFire) /\ WF_vars(GetSessionReturns)

\* C30: once a load has ended or the document has requested the session, the
\* session is eventually injected.
C30_DeliveredAtLeastOnce ==
  (loadEnds > 0 \/ requested["auth.request"] > 0) ~> (injections > 0)

\* The session was injected on the document's request alone, and on a load
\* end alone.
C30_Witness ==
  /\ injections > 0
  /\ \/ loadEnds = 0 /\ requested["auth.request"] = 1
     \/ loadEnds = 1 /\ requested["auth.request"] = 0 /\ ~canSendAuth

\* ------------------------------------------------------------ project change claims

\* Both screens for a signed-in user, with the route's projectId changing
\* while the screen stays mounted.
NextProject ==
  \/ \E url \in LoadedUrls : OnLoadEnd(url)
  \/ TimerFire
  \/ GetSessionReturns
  \/ OnMessage(Json("auth.request"))
  \/ \E p \in ProjectIds : ProjectIdChange(p)
SpecProject == InitBridge /\ [][NextProject]_vars

\* The bridge URL of the project the screen is given.
BridgeUrlOf(args) ==
  BuildEditorURL(args.baseURL, args.projectId, args.fromApp, args.accessToken,
                 args.refreshToken)

\* C31: when the projectId of a mounted screen changes, the handshake state
\* is back at its initial value and the WebView's uri is the bridge URL of the
\* new project.
C31_ProjectChangeResets ==
  [][(mounted /\ urlArgs'.projectId # urlArgs.projectId) =>
       /\ ~sessionSent'
       /\ ~authQueued'
       /\ ~canSendAuth'
       /\ authRetryCount' = 0
       /\ webviewUri' = BridgeUrlOf(urlArgs')]_vars

\* ------------------------------------------------------------ redelivery claims

CodeXUrl == Query(AuthUrl, Param("code", <<"X">>))
HandoffXUrl == Query(AuthUrl, Param("handoff", <<"X">>))

\* The handler is given the URL it was given last (the launch URL and the
\* live event of one redirect), less than 5 s after that URL was handled.
Redelivered ==
  /\ RedirectStep
  /\ lastRedirect.did \in {"codeExchange", "handoffPost", "skipped"}
  /\ lastRedirect'.url = lastRedirect.url
  /\ now - lastHandledAt < DedupWindowMs

SignOutInProgress == \E s \in SignOuts : soPc[s] \in {"awaitInit", "awaitRemote"}

\* C33: between the optimistic clear of signOut() and its settling, the
\* identity subscribers are notified with null only.
C33_NullWhileSigningOut ==
  [][(SignOutInProgress /\ listeners # {} /\ notifyCalls' # notifyCalls)
       => lastPub'.user = NoUser]_vars

\* The signOut() calls that have passed `await ensureInitialized()`.
PastInit == { s \in SignOuts : soPc[s] \in {"awaitRemote", "resolved", "rejected"} }

\* C34: every signOut() call issues supabase.auth.signOut() exactly once,
\* whether the restore succeeded or failed.
C34_RemoteSignOutOncePerCall == remoteSignOutCalls = Cardinality(PastInit)

\* ------------------------------------------------------------ injection claims

\* The screen of feedback.tsx with the provider's session ending under it:
\* load ends of the bridge page with their resends, the timers, and getSession
\* returning what the provider holds or throwing.
NextInjection ==
  \/ OnLoadEnd(webviewUri)
  \/ TimerFire
  \/ OnGetSession
  \/ ProviderSessionEnds
SpecInjection == InitSilent /\ [][NextInjection]_vars

\* The step in which a delivery attempt resumes after getSession.
AttemptKinds == { AttemptKind[outcome] : outcome \in SessionOutcomes }
AttemptStep == lastEvent'.n # lastEvent.n /\ lastEvent'.kind \in AttemptKinds

\* C35: a script is injected only by a delivery attempt for which the
\* provider holds a session, and carries that session's access and refresh
\* token; while the provider holds no session nothing is injected.
C35_InjectsCurrentSessionOnly ==
  [][/\ (injections' # injections) =>
          /\ AttemptStep
          /\ lastEvent'.dispatched
          /\ provSession \in Users
          /\ lastEvent'.raw = <<"supabase-session", <<"access", provSession>>,
                                <<"refresh", provSession>>>>
     /\ (AttemptStep /\ lastEvent'.dispatched) => injections' = injections + 1
     /\ (provSession = NoUser) => injections' = injections]_vars

\* After an injection the provider lost its session, and a later attempt (a
\* resend or retry) injected nothing.
C35_Witness ==
  /\ injections = 1
  /\ provSession = NoUser
  /\ lastEvent.kind = "getSession: none"
  /\ ~lastEvent.dispatched
  /\ lastEvent.raw = <<>>
  /\ error = SessionLostText

\* The screen of feedback.tsx with its unmounting: the document's request and
\* acknowledgment, and the attempts with their retry timers.
NextDelivered ==
  \/ \E type \in {"auth.request", AckType} : OnMessage(Json(type))
  \/ TimerFire
  \/ OnGetSession
  \/ Unmount
SpecDelivered == InitSilent /\ [][NextDelivered]_vars

TokenUrl ==
  Query(AuthUrl, And(Param("access_token", <<"T">>), Param("refresh_token", <<"R">>)))

NextGuard ==
  \/ \E h \in Hooks : MountHook(h)
  \/ \E h \in Hooks : UnmountHook(h)
  \/ RestoreSettle
  \/ OnAuthStateChange
  \/ ProviderEmit
  \/ AppEffect
SpecGuard == InitStore /\ [][NextGuard]_vars

\* The effect of AppLayout has run for the current [authReady, user].
AppFlushed == appEffectDeps = AppDeps

InitCache == InitStore /\ provSession = NoUser
SpecCache == InitCache /\ [][NextCache]_vars

\* The stored keys that start with "cache:": "cache:t" and "cache:".
CacheKeys == { <<"c", "a", "c", "h", "e", ":", "t">>, <<"c", "a", "c", "h", "e", ":">> }

\* C39: clearAllCache() removes exactly the keys starting with "cache:" that
\* were stored when it listed the keys, and changes no other key, whether it
\* was called on logout or by a cache write that found the storage full.
C39_ClearsCacheKeysOnly ==
  [][\A c \in ClearIds :
       /\ (clears[c].pc = "getAllKeys" /\ clears'[c].pc # "getAllKeys")
            => /\ storage' = storage
               /\ clears'[c].pc = "done" => CacheKeys \cap AllKeys = {}
       /\ (clears[c].pc = "multiRemove" /\ clears'[c].pc = "done")
            => \A k \in StoredKeys :
                 storage'[k] = IF k \in CacheKeys /\ k \in clears[c].allKeys
                                 THEN Absent ELSE storage[k]
       /\ (clears[c].pc = "multiRemove" /\ clears'[c].pc = "failed")
            => \A k \in StoredKeys \ CacheKeys : storage'[k] = storage[k]]_vars

\* A clearAllCache() called by a cache write on a full storage has removed
\* the cache keys while the provider's rewritten session key and the other
\* keys are stored.
C39_Witness ==
  \E c \in ClearIds :
    /\ clears[c].by = "full"
    /\ clears[c].pc = "done"
    /\ clears[c].remove = CacheKeys
    /\ CacheKeys \cap AllKeys = {}
    /\ storage[AuthTokenKey] = "new"
    /\ AllKeys = StoredKeys \ CacheKeys

====
